---- MODULE Spec2Model ----
(***************************************************************************)
(* Model of the mapping-preserving rewrite engine of quran-transcript      *)
(* (phonetics/conv_base_operation.py) and of the phonetizer pipeline that  *)
(* drives it (phonetics/phonetizer.py).                                    *)
(*                                                                         *)
(* Texts are sequences of codepoints; a codepoint is a short string.       *)
(* Python indices are 0-based, TLA+ sequences are 1-based: the operators   *)
(* below keep the source's 0-based indices and shift by one on access.     *)
(***************************************************************************)
EXTENDS Integers, Sequences, FiniteSets, TLC

(***************************************************************************)
(* Alphabet collaborator (quran_transcript.alphabet): the codepoints the   *)
(* engine names.                                                           *)
(***************************************************************************)
space == "sp"
shadda == "sh"
ras_haaa == "sk"
tanween_idhaam_dterminer == "T"
qlqla == "Q"
alif == "A"
waw_madd == "W"
yaa_madd == "Y"

NoRule == "NoRule"
NoTag == "NoTag"

(***************************************************************************)
(* Python sequence access: s[i] with a negative index counts from the end. *)
(***************************************************************************)
InRange(s, i) == (i >= 0 /\ i < Len(s)) \/ (i < 0 /\ -i <= Len(s))
PyIdx(s, i) == IF i >= 0 THEN i + 1 ELSE Len(s) + i + 1
At(s, i) == s[PyIdx(s, i)]

Min2(a, b) == IF a < b THEN a ELSE b

(***************************************************************************)
(* Levenshtein.opcodes(text, new_text): the edit script of the cost matrix *)
(* D, traced back from the end: a deletion when D[i][j] = D[i-1][j] + 1,   *)
(* else an insertion when D[i][j-1] = D[i-1][j-1] - 1, else the diagonal.  *)
(* Read forwards this puts Equal before Insert before Replace.             *)
(***************************************************************************)
RECURSIVE LevRow(_, _, _, _, _)
LevRow(s1, s2, i, prev, cur) ==
    LET j == Len(cur) IN
    IF j > Len(s2) THEN cur
    ELSE LET v == IF j = 0 THEN i
                  ELSE Min2(Min2(prev[j + 1] + 1, cur[j] + 1),
                            prev[j] + (IF s1[i] = s2[j] THEN 0 ELSE 1))
         IN LevRow(s1, s2, i, prev, Append(cur, v))

RECURSIVE LevRows(_, _, _)
LevRows(s1, s2, rows) ==
    LET i == Len(rows) IN
    IF i > Len(s1) THEN rows
    ELSE LevRows(s1, s2, Append(rows, LevRow(s1, s2, i, rows[i], <<>>)))

LevMatrix(s1, s2) == LevRows(s1, s2, << [j \in 1..(Len(s2) + 1) |-> j - 1] >>)

RECURSIVE EditPath(_, _, _, _, _, _)
EditPath(s1, s2, M, col, row, acc) ==
    IF row > 0 /\ col > 0
    THEN IF M[col + 1][row + 1] = M[col][row + 1] + 1
         THEN EditPath(s1, s2, M, col - 1, row, <<"delete">> \o acc)
         ELSE IF row - 1 > 0 /\ M[col + 1][row] = M[col][row] - 1
         THEN EditPath(s1, s2, M, col, row - 1, <<"insert">> \o acc)
         ELSE IF s1[col] # s2[row]
         THEN EditPath(s1, s2, M, col - 1, row - 1, <<"replace">> \o acc)
         ELSE EditPath(s1, s2, M, col - 1, row - 1, <<"equal">> \o acc)
    ELSE IF col > 0 THEN EditPath(s1, s2, M, col - 1, row, <<"delete">> \o acc)
    ELSE IF row > 0 THEN EditPath(s1, s2, M, col, row - 1, <<"insert">> \o acc)
    ELSE acc

RECURSIVE OpRuns(_, _, _, _, _)
OpRuns(path, k, si, di, res) ==
    IF k > Len(path) THEN res
    ELSE LET t == path[k]
             ds == IF t \in {"equal", "replace", "delete"} THEN 1 ELSE 0
             dd == IF t \in {"equal", "replace", "insert"} THEN 1 ELSE 0
             n == Len(res)
         IN IF n > 0 /\ res[n].tag = t
            THEN OpRuns(path, k + 1, si + ds, di + dd,
                        [res EXCEPT ![n].i2 = si + ds, ![n].j2 = di + dd])
            ELSE OpRuns(path, k + 1, si + ds, di + dd,
                        Append(res, [tag |-> t, i1 |-> si, i2 |-> si + ds,
                                     j1 |-> di, j2 |-> di + dd]))

opcodes(s1, s2) ==
    OpRuns(EditPath(s1, s2, LevMatrix(s1, s2), Len(s1), Len(s2), <<>>), 1, 0, 0, <<>>)

(***************************************************************************)
(* MappingPos: pos = (start, end), the tajweed rules attached (Python's    *)
(* None and the rule-less list are both the empty sequence: the code never *)
(* builds an empty list) and the deleted flag.  NonePos is the placeholder *)
(* None of a list that is still being filled.                              *)
(***************************************************************************)
MappingPos(s, e) == [start |-> s, end |-> e, rules |-> <<>>, deleted |-> FALSE, none |-> FALSE]
DeletedPos(p) == [start |-> p, end |-> p, rules |-> <<>>, deleted |-> TRUE, none |-> FALSE]
NonePos == [start |-> 0, end |-> 0, rules |-> <<>>, deleted |-> FALSE, none |-> TRUE]

add_tajweed_rule(mp, new_tajweed_rules) ==
    IF new_tajweed_rules = NoRule THEN mp
    ELSE [mp EXCEPT !.rules = Append(@, new_tajweed_rules)]

add_tajweed_rules(mp, new_tajweed_rules) == [mp EXCEPT !.rules = @ \o new_tajweed_rules]

(***************************************************************************)
(* The state of get_mappings while it runs: the list being built, the      *)
(* deferred-delete set, the tags of the shared rule objects and the error  *)
(* that ended the call ("ok" while none has).                              *)
(***************************************************************************)
Fail(st, e) == IF st.err = "ok" THEN [st EXCEPT !.err = e] ELSE st

SetPos(st, i, mp) == [st EXCEPT !.m[PyIdx(st.m, i)] = mp]

\* new_mappings[i].pos = (new_mappings[i].pos[0], e), an AttributeError on None
WidenEnd(st, i, e) ==
    IF st.err # "ok" THEN st
    ELSE IF ~InRange(st.m, i) THEN Fail(st, "IndexError")
    ELSE IF At(st.m, i).none THEN Fail(st, "AttributeError")
    ELSE [st EXCEPT !.m[PyIdx(st.m, i)].end = e]

\* AttachRule that attaches nothing
AttachRule_none(st, i, rule) == st

AttachRule(st, i, rule) ==
    IF st.err # "ok" THEN st
    ELSE [st EXCEPT !.m[PyIdx(st.m, i)] = add_tajweed_rule(@, rule)]

RECURSIVE MarkDeleted(_, _, _, _)
MarkDeleted(st, lo, hi, p) ==
    IF lo >= hi THEN st
    ELSE MarkDeleted([SetPos(st, lo, DeletedPos(p)) EXCEPT !.to_del_poses = @ \cup {lo}],
                     lo + 1, hi, p)

(***************************************************************************)
(* curr_op[0] == "insert"                                                  *)
(***************************************************************************)
InsertOp(st, new_text, last_op, curr_op, next_op, rule) ==
    LET hasLast == last_op.tag # "none"
        hasNext == next_op.tag # "none"
        eq_ins_same == hasLast /\ last_op.tag = "equal"
                       /\ At(new_text, last_op.j2 - 1) = At(new_text, curr_op.j1)
        eq_ins_not_same == hasLast /\ last_op.tag = "equal" /\ ~eq_ins_same
        st1 == IF eq_ins_same
               THEN AttachRule(WidenEnd(st, last_op.i2 - 1, curr_op.j2), last_op.i2 - 1, rule)
               ELSE st
        bindNext == SetPos(st1, next_op.i1,
                           add_tajweed_rule(MappingPos(curr_op.j1, next_op.j1 + 1), rule))
        bindLast == AttachRule(WidenEnd(st1, last_op.i2 - 1, curr_op.j2), last_op.i2 - 1, rule)
    IN
    IF hasNext
    THEN IF eq_ins_same
         THEN IF next_op.tag = "replace"
                 /\ At(new_text, curr_op.j2 - 1) = At(new_text, next_op.j1)
              THEN MarkDeleted(WidenEnd(st1, last_op.i2 - 1, next_op.j2),
                               next_op.i1, next_op.i2, next_op.j2)
              ELSE st1
         ELSE IF next_op.tag = "replace"
              THEN MarkDeleted(
                     SetPos(st1, next_op.i1,
                            add_tajweed_rule(MappingPos(curr_op.j1, next_op.j2), rule)),
                     next_op.i1 + 1, next_op.i2, next_op.j2)
              ELSE IF next_op.tag # "equal" THEN Fail(st1, "AssertionError")
              ELSE IF At(new_text, curr_op.j2 - 1) = At(new_text, next_op.j1) THEN bindNext
              ELSE IF eq_ins_not_same THEN bindLast
              ELSE bindNext
    ELSE IF eq_ins_not_same THEN bindLast
    ELSE st1

(***************************************************************************)
(* curr_op[0] == "replace": one source codepoint per target codepoint; a   *)
(* space is deleted and its target codepoint given to the entry before it. *)
(***************************************************************************)
RECURSIVE ReplaceOp(_, _, _, _, _)
ReplaceOp(st, text, curr_op, k, rule) ==
    LET old_idx == curr_op.i1 + k
        new_idx == curr_op.j1 + k
    IN
    IF st.err # "ok" \/ old_idx >= curr_op.i2 \/ new_idx >= curr_op.j2 THEN st
    ELSE IF At(st.m, old_idx).none /\ old_idx \notin st.to_del_poses
    THEN IF At(text, old_idx) # space
         THEN ReplaceOp(SetPos(st, old_idx,
                               add_tajweed_rule(MappingPos(new_idx, new_idx + 1), rule)),
                        text, curr_op, k + 1, rule)
         ELSE ReplaceOp(WidenEnd(SetPos(st, old_idx, DeletedPos(new_idx + 1)),
                                 old_idx - 1, new_idx + 1),
                        text, curr_op, k + 1, rule)
    ELSE ReplaceOp(st, text, curr_op, k + 1, rule)

(***************************************************************************)
(* curr_op[0] == "equal" and curr_op[0] == "delete"                        *)
(***************************************************************************)
\* EqualOp that attaches a rule to every character it sets
RECURSIVE EqualOp_ruled(_, _, _)
EqualOp_ruled(st, curr_op, k) ==
    LET old_idx == curr_op.i1 + k
        new_idx == curr_op.j1 + k
    IN
    IF old_idx >= curr_op.i2 \/ new_idx >= curr_op.j2 THEN st
    ELSE IF At(st.m, old_idx).none
    THEN EqualOp_ruled(SetPos(st, old_idx,
                              add_tajweed_rule(MappingPos(new_idx, new_idx + 1), "NormalMadd")),
                       curr_op, k + 1)
    ELSE EqualOp_ruled(st, curr_op, k + 1)

RECURSIVE EqualOp(_, _, _)
EqualOp(st, curr_op, k) ==
    LET old_idx == curr_op.i1 + k
        new_idx == curr_op.j1 + k
    IN
    IF old_idx >= curr_op.i2 \/ new_idx >= curr_op.j2 THEN st
    ELSE IF At(st.m, old_idx).none
    THEN EqualOp(SetPos(st, old_idx, MappingPos(new_idx, new_idx + 1)), curr_op, k + 1)
    ELSE EqualOp(st, curr_op, k + 1)

\* DeleteOp with the deleted flag forgotten
RECURSIVE DeleteOp_noflag(_, _, _, _)
DeleteOp_noflag(st, curr_op, old_idx, rule) ==
    IF old_idx >= curr_op.i2 THEN st
    ELSE DeleteOp_noflag(
           SetPos(st, old_idx, add_tajweed_rule(MappingPos(curr_op.j1, curr_op.j1), rule)),
           curr_op, old_idx + 1, rule)

RECURSIVE DeleteOp(_, _, _, _)
DeleteOp(st, curr_op, old_idx, rule) ==
    IF old_idx >= curr_op.i2 THEN st
    ELSE DeleteOp(SetPos(st, old_idx, add_tajweed_rule(DeletedPos(curr_op.j1), rule)),
                  curr_op, old_idx + 1, rule)

NoOp == [tag |-> "none", i1 |-> 0, i2 |-> 0, j1 |-> 0, j2 |-> 0]

\* the loop over the opcodes with its one-step lookbehind and lookahead
RECURSIVE WalkOps(_, _, _, _, _, _)
WalkOps(st, text, new_text, ops, op_idx, rule) ==
    IF st.err # "ok" \/ op_idx > Len(ops) THEN st
    ELSE LET last_op == IF op_idx > 1 THEN ops[op_idx - 1] ELSE NoOp
             curr_op == ops[op_idx]
             next_op == IF op_idx < Len(ops) THEN ops[op_idx + 1] ELSE NoOp
             st1 == CASE curr_op.tag = "insert" ->
                           InsertOp(st, new_text, last_op, curr_op, next_op, rule)
                      [] curr_op.tag = "replace" -> ReplaceOp(st, text, curr_op, 0, rule)
                      [] curr_op.tag = "equal" -> EqualOp(st, curr_op, 0)
                      [] curr_op.tag = "delete" -> DeleteOp(st, curr_op, curr_op.i1, rule)
         IN WalkOps(st1, text, new_text, ops, op_idx + 1, rule)

\* assert all(m is not None for m in new_mappings)
AssertNoNone(st) ==
    IF st.err = "ok" /\ \E i \in 1..Len(st.m) : st.m[i].none
    THEN Fail(st, "AssertionError")
    ELSE st

StepMappings(text, new_text, rule, tags) ==
    AssertNoNone(
        WalkOps([m |-> [i \in 1..Len(text) |-> NonePos], to_del_poses |-> {},
                 tags |-> tags, err |-> "ok"],
                text, new_text, opcodes(text, new_text), 1, rule))

(***************************************************************************)
(* Tajweed rule objects.  A rule object is shared by reference between the *)
(* operation that owns it and every span it is attached to, so a span      *)
(* holds the rule's identity and the tag lives in one place, `tags`.       *)
(***************************************************************************)
RuleObjs == {"LeenMadd", "NormalMadd", "Qalqalah"}

name_en(rule) ==
    CASE rule = "LeenMadd" -> "Leen Madd"
      [] rule = "NormalMadd" -> "Normal Madd"
      [] rule = "Qalqalah" -> "Qalqalah"

_madd_to_tag == (alif :> "alif") @@ (waw_madd :> "waw") @@ (yaa_madd :> "yaa")

FreshTags == [r \in RuleObjs |-> NoTag]

\* the special case that assigns the tag of a Leen Madd rule
RECURSIVE LeenMaddRules(_, _, _, _)
LeenMaddRules(st, new_text, m_idx, taj_idx) ==
    LET mp == At(st.m, m_idx) IN
    IF st.err # "ok" \/ taj_idx >= Len(mp.rules) THEN st
    ELSE LET r == At(mp.rules, taj_idx) IN
         IF name_en(r) = "Leen Madd" /\ st.tags[r] = NoTag
         THEN IF ~InRange(new_text, mp.start) THEN Fail(st, "IndexError")
              ELSE IF At(new_text, mp.start) \notin DOMAIN _madd_to_tag
              THEN Fail(st, "KeyError")
              ELSE LeenMaddRules([st EXCEPT !.tags[r] = _madd_to_tag[At(new_text, mp.start)]],
                                 new_text, m_idx, taj_idx + 1)
         ELSE LeenMaddRules(st, new_text, m_idx, taj_idx + 1)

RECURSIVE LeenMaddPass(_, _, _)
LeenMaddPass(st, new_text, m_idx) ==
    IF st.err # "ok" \/ m_idx >= Len(st.m) THEN st
    ELSE LeenMaddPass(LeenMaddRules(st, new_text, m_idx, 0), new_text, m_idx + 1)

(***************************************************************************)
(* re.finditer: the non-overlapping matches, left to right.                *)
(***************************************************************************)
\* f"{tanween_idhaam_dterminer}[^$]": the determiner and one more codepoint
RECURSIVE TanweenMatches(_, _)
TanweenMatches(text, pos) ==
    IF pos + 1 >= Len(text) THEN <<>>
    ELSE IF At(text, pos) = tanween_idhaam_dterminer
    THEN <<pos>> \o TanweenMatches(text, pos + 2)
    ELSE TanweenMatches(text, pos + 1)

\* f"([^{space}]){space}?\\1{shadda}": the span() of each match
ShaddaMatchEnd(text, pos) ==
    IF At(text, pos) = space THEN -1
    ELSE IF pos + 3 < Len(text) /\ At(text, pos + 1) = space
            /\ At(text, pos + 2) = At(text, pos) /\ At(text, pos + 3) = shadda
    THEN pos + 4
    ELSE IF pos + 2 < Len(text) /\ At(text, pos + 1) = At(text, pos)
            /\ At(text, pos + 2) = shadda
    THEN pos + 3
    ELSE -1

RECURSIVE ShaddaMatches(_, _)
ShaddaMatches(text, pos) ==
    IF pos >= Len(text) THEN <<>>
    ELSE LET e == ShaddaMatchEnd(text, pos) IN
         IF e < 0 THEN ShaddaMatches(text, pos + 1)
         ELSE << <<pos, e>> >> \o ShaddaMatches(text, e)

\* f"[^{ras_haaa}{shadda}]({qlqla})": span(1)[0] of each match
RECURSIVE QlqMatches(_, _)
QlqMatches(new_text, pos) ==
    IF pos + 1 >= Len(new_text) THEN <<>>
    ELSE IF At(new_text, pos) \notin {ras_haaa, shadda} /\ At(new_text, pos + 1) = qlqla
    THEN <<pos + 1>> \o QlqMatches(new_text, pos + 2)
    ELSE QlqMatches(new_text, pos + 1)

(***************************************************************************)
(* The post-passes on the step's own mapping.                              *)
(***************************************************************************)
RECURSIVE TanweenPass(_, _, _, _, _)
TanweenPass(st, text, new_text, ms, k) ==
    IF st.err # "ok" \/ k > Len(ms) THEN st
    ELSE LET idx == ms[k]
             mp == At(st.m, idx)
         IN IF ~InRange(new_text, mp.start) THEN Fail(st, "IndexError")
            ELSE IF At(text, idx) # At(new_text, mp.start)
            THEN TanweenPass(
                   [WidenEnd(st, idx - 1, mp.end) EXCEPT
                        !.m[PyIdx(st.m, idx)].start = mp.end,
                        !.m[PyIdx(st.m, idx)].deleted = TRUE],
                   text, new_text, ms, k + 1)
            ELSE TanweenPass(st, text, new_text, ms, k + 1)

RECURSIVE ShaddaPass(_, _, _)
ShaddaPass(st, ms, k) ==
    IF st.err # "ok" \/ k > Len(ms) THEN st
    ELSE LET first == ms[k][1]
             second == ms[k][2] - 2
         IN IF (~At(st.m, first).deleted) /\ At(st.m, second).deleted
            THEN ShaddaPass(
                   [st EXCEPT !.m = [i \in 1..Len(st.m) |->
                        IF i = second + 1 THEN st.m[first + 1]
                        ELSE IF i >= first + 1 /\ i < second + 1
                        THEN DeletedPos(st.m[first + 1].start)
                        ELSE st.m[i]]],
                   ms, k + 1)
            ELSE ShaddaPass(st, ms, k + 1)

(***************************************************************************)
(* merge_mappings(mappings, new_mappings).  An accumulator is the record   *)
(* [none, list]: `none` is Python's None, list the MappingPos list.        *)
(***************************************************************************)
NoMappings == [none |-> TRUE, list |-> <<>>]
Mappings(l) == [none |-> FALSE, list |-> l]

RECURSIVE StepRules(_, _, _)
StepRules(new_mappings, lo, hi) ==
    IF lo >= hi THEN <<>>
    ELSE At(new_mappings, lo).rules \o StepRules(new_mappings, lo + 1, hi)

\* MergedPos anchoring a deleted entry at the end of new_mappings[start], not its start
MergedPos_end(old_map, new_mappings) ==
    LET start == old_map.start
        end == old_map.end
        n == Len(new_mappings)
        indexOk == /\ \A k \in start..(end - 1) : InRange(new_mappings, k)
                   /\ IF old_map.deleted
                      THEN (start < n) => InRange(new_mappings, start)
                      ELSE InRange(new_mappings, start) /\ InRange(new_mappings, end - 1)
    IN IF ~indexOk THEN [err |-> "IndexError", mp |-> old_map]
       ELSE [err |-> "ok",
             mp |-> [start |-> IF old_map.deleted /\ start >= n
                               THEN At(new_mappings, -1).end
                               ELSE IF old_map.deleted THEN At(new_mappings, start).end
                               ELSE At(new_mappings, start).start,
                     end |-> IF old_map.deleted
                             THEN (IF start < n THEN At(new_mappings, start).end
                                   ELSE At(new_mappings, -1).end)
                             ELSE At(new_mappings, end - 1).end,
                     rules |-> old_map.rules \o StepRules(new_mappings, start, end),
                     deleted |-> \A k \in start..(end - 1) : At(new_mappings, k).deleted,
                     none |-> FALSE]]

\* one round of the loop over the accumulator: the new value of mappings[idx]
MergedPos(old_map, new_mappings) ==
    LET start == old_map.start
        end == old_map.end
        n == Len(new_mappings)
        indexOk == /\ \A k \in start..(end - 1) : InRange(new_mappings, k)
                   /\ IF old_map.deleted
                      THEN (start < n) => InRange(new_mappings, start)
                      ELSE InRange(new_mappings, start) /\ InRange(new_mappings, end - 1)
    IN IF ~indexOk THEN [err |-> "IndexError", mp |-> old_map]
       ELSE [err |-> "ok",
             mp |-> [start |-> IF old_map.deleted /\ start >= n
                               THEN At(new_mappings, -1).end
                               ELSE At(new_mappings, start).start,
                     end |-> IF old_map.deleted
                             THEN (IF start < n THEN At(new_mappings, start).start
                                   ELSE At(new_mappings, -1).end)
                             ELSE At(new_mappings, end - 1).end,
                     rules |-> old_map.rules \o StepRules(new_mappings, start, end),
                     deleted |-> \A k \in start..(end - 1) : At(new_mappings, k).deleted,
                     none |-> FALSE]]

\* merge_mappings refusing an empty step only when the accumulator has entries
merge_mappings_lenient(mappings, new_mappings) ==
    IF mappings.none THEN [err |-> "ok", list |-> new_mappings]
    ELSE IF new_mappings = <<>> /\ mappings.list # <<>>
    THEN [err |-> "ValueError", list |-> mappings.list]
    ELSE LET r == [idx \in 1..Len(mappings.list) |->
                      MergedPos(mappings.list[idx], new_mappings)]
         IN IF \E idx \in 1..Len(mappings.list) : r[idx].err # "ok"
            THEN [err |-> "IndexError", list |-> mappings.list]
            ELSE [err |-> "ok", list |-> [idx \in 1..Len(mappings.list) |-> r[idx].mp]]

merge_mappings(mappings, new_mappings) ==
    IF mappings.none THEN [err |-> "ok", list |-> new_mappings]
    ELSE IF new_mappings = <<>> THEN [err |-> "ValueError", list |-> mappings.list]
    ELSE LET r == [idx \in 1..Len(mappings.list) |->
                      MergedPos(mappings.list[idx], new_mappings)]
         IN IF \E idx \in 1..Len(mappings.list) : r[idx].err # "ok"
            THEN [err |-> "IndexError", list |-> mappings.list]
            ELSE [err |-> "ok", list |-> [idx \in 1..Len(mappings.list) |-> r[idx].mp]]

\* mappings[idx] as the loop leaves it when its round raises IndexError
PartlyMerged(old_map, new_mappings) ==
    IF ~old_map.deleted
    THEN old_map
    ELSE [old_map EXCEPT
            !.start = IF old_map.start < Len(new_mappings)
                      THEN At(new_mappings, old_map.start).start
                      ELSE At(new_mappings, -1).end,
            !.end = IF old_map.start < Len(new_mappings)
                    THEN At(new_mappings, old_map.start).start
                    ELSE At(new_mappings, -1).end,
            !.rules = @ \o StepRules(new_mappings, old_map.start,
                                     Min2(old_map.end, Len(new_mappings)))]

\* the caller's list after merge_mappings(mappings, new_mappings): the loop
\* rewrites it in place, up to the round that raises
MergedInPlace(mappings, new_mappings) ==
    IF mappings.none \/ new_mappings = <<>> THEN mappings
    ELSE Mappings([idx \in 1..Len(mappings.list) |->
            IF \E k \in 1..(idx - 1) : MergedPos(mappings.list[k], new_mappings).err # "ok"
            THEN mappings.list[idx]
            ELSE IF MergedPos(mappings.list[idx], new_mappings).err # "ok"
            THEN PartlyMerged(mappings.list[idx], new_mappings)
            ELSE MergedPos(mappings.list[idx], new_mappings).mp])

(***************************************************************************)
(* The qalqalah post-pass, on the merged mapping.                          *)
(***************************************************************************)
\* the loop that looks for the span starting at qlq_idx: the value m_idx ends with
QlqIndex(new_mappings, qlq_idx) ==
    LET n == Len(new_mappings)
        hits == {i \in 0..(n - 1) : At(new_mappings, i).start = qlq_idx}
    IN IF n = 0 THEN 0
       ELSE IF hits = {} THEN n - 1
       ELSE CHOOSE i \in hits : \A j \in hits : i <= j

RECURSIVE QalqalahPass(_, _, _)
QalqalahPass(st, qs, k) ==
    IF st.err # "ok" \/ k > Len(qs) THEN st
    ELSE LET m_idx == QlqIndex(st.m, qs[k])
         IN IF ~InRange(st.m, m_idx - 1) THEN Fail(st, "IndexError")
            ELSE LET p == PyIdx(st.m, m_idx - 1)
                     c == m_idx + 1
                     cur == st.m[c]
                 IN IF st.m[p].rules = <<>>
                    THEN QalqalahPass(
                           [st EXCEPT !.m = [i \in 1..Len(st.m) |->
                                IF i = c
                                THEN [cur EXCEPT !.start = cur.end, !.deleted = TRUE,
                                                 !.rules = <<>>]
                                ELSE IF i = p
                                THEN [st.m[p] EXCEPT !.end = cur.end, !.rules = cur.rules]
                                ELSE st.m[i]]],
                           qs, k + 1)
                    ELSE QalqalahPass(st, qs, k + 1)

\* the closing check: each entry ends where the next one starts, the last at len(new_text)
ContiguityOk(new_mappings, new_text) ==
    \A idx \in 1..Len(new_mappings) :
        new_mappings[idx].end = IF idx = Len(new_mappings) THEN Len(new_text)
                                ELSE new_mappings[idx + 1].start

(***************************************************************************)
(* get_mappings(text, new_text, mappings, tajweed_rule).  The result is    *)
(* [err, list, tags, step, merged]: the error that ended the call ("ok"    *)
(* for a return), the returned list, the rule tags afterwards, the step's  *)
(* own mapping as it was handed to merge_mappings and what merge_mappings  *)
(* made of it (err "none" when the call never got there).                  *)
(***************************************************************************)
NotMerged == [err |-> "none", list |-> <<>>]

\* the closing check and the return, st being the state after the last pass
Returned_by_get_mappings(st, step, merged, new_text) ==
    [err |-> IF st.err # "ok" THEN st.err
             ELSE IF ContiguityOk(st.m, new_text) THEN "ok"
             ELSE "ContiguityError",
     list |-> st.m, tags |-> st.tags, step |-> step, merged |-> merged]

\* new_mappings = merge_mappings(mappings, new_mappings) has returned mg
AfterMerge(st, mg, new_text) ==
    Returned_by_get_mappings(
        QalqalahPass([st EXCEPT !.m = mg.list, !.err = mg.err], QlqMatches(new_text, 0), 1),
        st.m, mg, new_text)

\* st is the state after the passes on the step's own mapping
AfterStep(st, mappings, new_text) ==
    IF st.err = "ok"
    THEN AfterMerge(st, merge_mappings(mappings, st.m), new_text)
    ELSE Returned_by_get_mappings([st EXCEPT !.m = <<>>], st.m, NotMerged, new_text)

get_mappings(text, new_text, mappings, tajweed_rule, tags) ==
    IF text = <<>>
    THEN [err |-> "ok", list |-> <<>>, tags |-> tags, step |-> <<>>, merged |-> NotMerged]
    ELSE AfterStep(
           ShaddaPass(
             TanweenPass(
               LeenMaddPass(StepMappings(text, new_text, tajweed_rule, tags), new_text, 0),
               text, new_text, TanweenMatches(text, 0), 1),
             ShaddaMatches(text, 0), 1),
           mappings, new_text)

(***************************************************************************)
(* re.sub(pattern, repl, text) for the patterns the model uses: a literal  *)
(* codepoint sequence, r"\s+" and r"(\s$|^\s)".  Replacements are literal. *)
(***************************************************************************)
Lit(l) == [kind |-> "lit", lit |-> l]
WsRun == [kind |-> "ws_run", lit |-> <<>>]
WsEdge == [kind |-> "ws_edge", lit |-> <<>>]

MatchesAt(lit, text, pos) ==
    /\ pos + Len(lit) <= Len(text)
    /\ \A k \in 1..Len(lit) : text[pos + k] = lit[k]

RECURSIVE SubLit(_, _, _, _)
SubLit(lit, repl, text, pos) ==
    IF pos >= Len(text) THEN <<>>
    ELSE IF MatchesAt(lit, text, pos)
    THEN repl \o SubLit(lit, repl, text, pos + Len(lit))
    ELSE <<text[pos + 1]>> \o SubLit(lit, repl, text, pos + 1)

RECURSIVE SubWsRun(_, _, _)
SubWsRun(repl, text, pos) ==
    IF pos >= Len(text) THEN <<>>
    ELSE IF text[pos + 1] = space
    THEN IF pos > 0 /\ text[pos] = space THEN SubWsRun(repl, text, pos + 1)
         ELSE repl \o SubWsRun(repl, text, pos + 1)
    ELSE <<text[pos + 1]>> \o SubWsRun(repl, text, pos + 1)

SubWsEdge(repl, text) ==
    LET n == Len(text)
        head == IF n > 0 /\ text[1] = space THEN repl ELSE SubSeq(text, 1, Min2(1, n))
        mid == SubSeq(text, 2, n - 1)
        tail == IF n > 1 THEN (IF text[n] = space THEN repl ELSE <<text[n]>>) ELSE <<>>
    IN head \o mid \o tail

re_sub(pattern, repl, text) ==
    CASE pattern.kind = "lit" -> SubLit(pattern.lit, repl, text, 0)
      [] pattern.kind = "ws_run" -> SubWsRun(repl, text, 0)
      [] pattern.kind = "ws_edge" -> SubWsEdge(repl, text)

(***************************************************************************)
(* sub_with_mapping(pattern, repl, text, mappings, tajweed_rule)           *)
(***************************************************************************)
\* return new_text, new_mappings
Returned_by_sub(new_text, r) ==
    [err |-> r.err, text |-> new_text, list |-> r.list, tags |-> r.tags,
     step |-> r.step, merged |-> r.merged]

Mapped(text, new_text, mappings, tajweed_rule, tags) ==
    Returned_by_sub(new_text, get_mappings(text, new_text, mappings, tajweed_rule, tags))

sub_with_mapping(pattern, repl, text, mappings, tajweed_rule, tags) ==
    IF text = <<>>
    THEN [err |-> "ok", text |-> <<>>, list |-> <<>>, tags |-> tags, step |-> <<>>,
          merged |-> NotMerged]
    ELSE Mapped(text, re_sub(pattern, repl, text), mappings, tajweed_rule, tags)

(***************************************************************************)
(* ConversionOperation.  The constructor's arguments: regs is one          *)
(* (pattern, replacement) tuple (regs_tuple) or a list of them             *)
(* (regs_list), tajweed_rules is None, one rule (rule) or a list           *)
(* (rules_list).  __post_init__ normalises both to lists.                  *)
(***************************************************************************)
Reg(pattern, repl) == [pattern |-> pattern, repl |-> repl]
NoReg == Reg([kind |-> "lit", lit |-> <<>>], <<>>)

ConversionOperation(args) ==
    LET regs == IF args.regs_is_tuple THEN <<args.regs_tuple>> ELSE args.regs_list
    IN [regs |-> regs,
        arabic_name |-> args.arabic_name,
        tajweed_rules |->
            IF args.rules_form = "rule" THEN <<args.rule>>
            ELSE IF args.rules_form = "list" /\ args.rules_list # <<>>
            THEN args.rules_list
            ELSE [k \in 1..Len(regs) |-> NoRule],
        ops_before |-> args.ops_before]

\* forward: zip(self.regs, self.tajweed_rules) stops at the shorter list
ForwardLen(op) == Min2(Len(op.regs), Len(op.tajweed_rules))

(***************************************************************************)
(* Bounds of the model, and the inputs drawn within them.                  *)
(***************************************************************************)
MaxLen == 4
MaxSteps == 2
MaxUthLen == 3
MaxOps == 2

Texts(alphabet, n) == UNION {[1..k -> alphabet] : k \in 0..n}

ChainAlphabet == {"a", space, qlqla, shadda, tanween_idhaam_dterminer}

\* the rewrites a chain step chooses from: (pattern, replacement, rule)
Rewrites ==
    { [pattern |-> Lit(<<space>>), repl |-> <<"a">>, rule |-> NoRule],
      [pattern |-> Lit(<<"a">>), repl |-> <<>>, rule |-> NoRule],
      [pattern |-> Lit(<<"a">>), repl |-> <<"a", "a">>, rule |-> "NormalMadd"],
      [pattern |-> Lit(<<"a", "a">>), repl |-> <<"a", qlqla>>, rule |-> "Qalqalah"],
      [pattern |-> Lit(<<"z">>), repl |-> <<"x">>, rule |-> NoRule] }

UthAlphabet == {"a", space, alif}

\* the constructor calls OPERATION_ORDER is built from
CtorArgs ==
    { [regs_is_tuple |-> TRUE, regs_tuple |-> Reg(Lit(<<alif>>), <<alif, alif>>),
       regs_list |-> <<>>, arabic_name |-> "Madd",
       rules_form |-> "rule", rule |-> "LeenMadd", rules_list |-> <<>>,
       ops_before |-> <<>>],
      [regs_is_tuple |-> FALSE, regs_tuple |-> NoReg,
       regs_list |-> <<Reg(Lit(<<"a", space>>), <<"a">>), Reg(Lit(<<"a">>), <<"a", qlqla>>)>>,
       arabic_name |-> "Qalqla",
       rules_form |-> "rule", rule |-> "Qalqalah", rules_list |-> <<>>,
       ops_before |-> <<>>],
      [regs_is_tuple |-> FALSE, regs_tuple |-> NoReg,
       regs_list |-> <<Reg(Lit(<<alif, "a">>), <<"a">>), Reg(Lit(<<"a", "a">>), <<"a">>)>>,
       arabic_name |-> "CleanEnd",
       rules_form |-> "none", rule |-> NoRule, rules_list |-> <<>>,
       ops_before |-> <<>>],
      [regs_is_tuple |-> FALSE, regs_tuple |-> NoReg,
       regs_list |-> <<Reg(Lit(<<space>>), <<alif, alif>>), Reg(Lit(<<alif>>), <<alif, alif>>)>>,
       arabic_name |-> "RemoveHmzatWaslMiddle",
       rules_form |-> "list", rule |-> NoRule, rules_list |-> <<NoRule, "NormalMadd">>,
       ops_before |-> <<>>] }

ArgLists == UNION {[1..k -> CtorArgs] : k \in 1..MaxOps}

(***************************************************************************)
(* State.                                                                  *)
(***************************************************************************)
VARIABLES
    pc,             \* where the caller stands: "chain" for a free chain of calls,
                    \* else the position inside quran_phonetizer
    orig,           \* the original input text
    text,           \* the current text
    mappings,       \* the accumulated mapping, [none, list]
    err,            \* "ok", or the exception that ended the last call
    tags,           \* the tag of every rule object
    nsteps,         \* sub_with_mapping calls made so far
    last,           \* the arguments and the merge of the last sub_with_mapping call
    ctor_args,      \* the constructor arguments of the operations
    OPERATION_ORDER,\* the constructed operations
    op_idx,         \* index of the operation being applied (0-based)
    reg_idx,        \* index inside zip(regs, tajweed_rules) (0-based)
    applied,        \* log of the (operation, reg, rule) rewrites forward has made
    remove_spaces,
    corpus,         \* the ayas create_phonemes_index walks, in canonical order
    aya_no,         \* ayas of the corpus indexed so far
    ph_grp_to_index,\* the index rows built so far
    ref_ph,         \* the reference phoneme string built so far
    disk,           \* the files ph_index.npy and ref_norm_ph.txt
    searcher,       \* the shared PhoneticSearch object
    threads,        \* the callers of the shared object, each inside one call
    explain_call,   \* the call of explain_error: its arguments and the errors returned
    gm,             \* a get_mappings call in progress: its arguments and new_mappings
    apply_call      \* a ConversionOperation.apply call: its arguments and its frames

core_vars == <<pc, orig, text, mappings, err, tags, nsteps, last, ctor_args,
               OPERATION_ORDER, op_idx, reg_idx, applied, remove_spaces>>

search_vars == <<corpus, aya_no, ph_grp_to_index, ref_ph, disk, searcher, threads,
                 explain_call, gm, apply_call>>

vars == <<core_vars, search_vars>>

Missing == [exists |-> FALSE, content |-> <<>>]
File(content) == [exists |-> TRUE, content |-> content]

NoFiles == [index |-> Missing, ref |-> Missing]
NoSearcher == [built |-> FALSE, index |-> <<>>, ref_ph_norm |-> <<>>]

\* no apply call is running
NoApply == [stack |-> <<>>, mode |-> "inference", discard_ops |-> {}]

\* no get_mappings call is being followed
NoGm ==
    [text |-> <<>>, new_text |-> <<>>, rule |-> NoRule,
     st |-> [m |-> <<>>, to_del_poses |-> {}, tags |-> FreshTags, err |-> "ok"]]

NoExplain ==
    [uthmani_len |-> 0, mappings |-> <<>>, ref_ph_groups |-> <<>>, pred_ph_groups |-> <<>>,
     errors |-> <<>>]

\* nothing of the search module or of the error explainer has run
SearchIdle ==
    /\ corpus = <<>>
    /\ aya_no = 0
    /\ ph_grp_to_index = <<>>
    /\ ref_ph = <<>>
    /\ disk = NoFiles
    /\ searcher = NoSearcher
    /\ threads = <<>>
    /\ explain_call = NoExplain
    /\ gm = NoGm
    /\ apply_call = NoApply

NoCall == [pattern |-> Lit(<<>>), repl |-> <<>>, rule |-> NoRule, text |-> <<>>,
           mappings |-> NoMappings, step |-> <<>>, merged |-> NotMerged]

\* one call text, mappings = sub_with_mapping(pattern, repl, text, mappings, rule)
Assign(pattern, repl, rule, r) ==
    /\ err' = r.err
    /\ tags' = r.tags
    /\ nsteps' = nsteps + 1
    /\ last' = [pattern |-> pattern, repl |-> repl, rule |-> rule, text |-> text,
                mappings |-> mappings, step |-> r.step, merged |-> r.merged]
    /\ text' = IF r.err = "ok" THEN r.text ELSE text
    /\ mappings' = IF r.err = "ok" THEN Mappings(r.list) ELSE mappings

Call(pattern, repl, rule) ==
    Assign(pattern, repl, rule, sub_with_mapping(pattern, repl, text, mappings, rule, tags))

(***************************************************************************)
(* A chain of sub_with_mapping calls: the first with no mapping, each      *)
(* later one fed the text and mapping the previous one returned.           *)
(***************************************************************************)
ChainInit ==
    /\ pc = "chain"
    /\ orig \in Texts(ChainAlphabet, MaxLen)
    /\ text = orig
    /\ mappings = NoMappings
    /\ err = "ok"
    /\ tags = FreshTags
    /\ nsteps = 0
    /\ last = NoCall
    /\ ctor_args = <<>>
    /\ OPERATION_ORDER = <<>>
    /\ op_idx = 0
    /\ reg_idx = 0
    /\ applied = <<>>
    /\ remove_spaces = FALSE
    /\ SearchIdle

SubStep(rw) ==
    /\ pc = "chain"
    /\ err = "ok"
    /\ nsteps < MaxSteps
    /\ Call(rw.pattern, rw.repl, rw.rule)
    /\ UNCHANGED <<pc, orig, ctor_args, OPERATION_ORDER, op_idx, reg_idx, applied,
                   remove_spaces>>
    /\ UNCHANGED search_vars

ChainNext == \E rw \in Rewrites : SubStep(rw)

ChainSpec == ChainInit /\ [][ChainNext]_vars

(***************************************************************************)
(* quran_phonetizer(uhtmani_text, moshaf, remove_spaces)                   *)
(***************************************************************************)
Init ==
    /\ pc = "clean1"
    /\ orig \in Texts(UthAlphabet, MaxUthLen)
    /\ text = orig
    /\ mappings = NoMappings
    /\ err = "ok"
    /\ tags = FreshTags
    /\ nsteps = 0
    /\ last = NoCall
    /\ ctor_args \in ArgLists
    /\ OPERATION_ORDER = [k \in 1..Len(ctor_args) |-> ConversionOperation(ctor_args[k])]
    /\ op_idx = 0
    /\ reg_idx = 0
    /\ applied = <<>>
    /\ remove_spaces \in BOOLEAN
    /\ SearchIdle

Goto(ok_pc) == pc' = IF err' = "ok" THEN ok_pc ELSE "raised"

\* text, mappings = sub_with_mapping(r"\s+", space, text)
CleanSpaces ==
    /\ pc = "clean1"
    /\ Call(WsRun, <<space>>, NoRule)
    /\ Goto("clean2")
    /\ UNCHANGED <<orig, ctor_args, OPERATION_ORDER, op_idx, reg_idx, applied, remove_spaces>>
    /\ UNCHANGED search_vars

\* text, mappings = sub_with_mapping(r"(\s$|^\s)", "", text, mappings=mappings)
CleanEdges ==
    /\ pc = "clean2"
    /\ Call(WsEdge, <<>>, NoRule)
    /\ Goto("ops")
    /\ UNCHANGED <<orig, ctor_args, OPERATION_ORDER, op_idx, reg_idx, applied, remove_spaces>>
    /\ UNCHANGED search_vars

\* one round of the loop of forward, inside the loop over OPERATION_ORDER
ApplyReg ==
    /\ pc = "ops"
    /\ op_idx < Len(OPERATION_ORDER)
    /\ LET op == OPERATION_ORDER[op_idx + 1]
           reg == op.regs[reg_idx + 1]
           taj_rule == op.tajweed_rules[reg_idx + 1]
           op_done == reg_idx + 1 >= ForwardLen(op)
       IN /\ Call(reg.pattern, reg.repl, taj_rule)
          /\ applied' = Append(applied, [op |-> op_idx, reg |-> reg_idx, rule |-> taj_rule])
          /\ reg_idx' = IF op_done THEN 0 ELSE reg_idx + 1
          /\ op_idx' = IF op_done THEN op_idx + 1 ELSE op_idx
          /\ Goto(IF op_done /\ op_idx + 1 >= Len(OPERATION_ORDER) THEN "sifat" ELSE "ops")
    /\ UNCHANGED <<orig, ctor_args, OPERATION_ORDER, remove_spaces>>
    /\ UNCHANGED search_vars

\* sifat = process_sifat(...): reads the texts, changes neither text nor mapping
ProcessSifat ==
    /\ pc = "sifat"
    /\ pc' = IF remove_spaces THEN "remove" ELSE "done"
    /\ UNCHANGED <<orig, text, mappings, err, tags, nsteps, last, ctor_args,
                   OPERATION_ORDER, op_idx, reg_idx, applied, remove_spaces>>
    /\ UNCHANGED search_vars

\* if remove_spaces: text, mappings = sub_with_mapping(space, "", text, mappings=mappings)
RemoveSpaces ==
    /\ pc = "remove"
    /\ Call(Lit(<<space>>), <<>>, NoRule)
    /\ Goto("done")
    /\ UNCHANGED <<orig, ctor_args, OPERATION_ORDER, op_idx, reg_idx, applied, remove_spaces>>
    /\ UNCHANGED search_vars

Next == CleanSpaces \/ CleanEdges \/ ApplyReg \/ ProcessSifat \/ RemoveSpaces

Spec == Init /\ [][Next]_vars

(***************************************************************************)
(* merge_mappings called on its own: the accumulator is `mappings`, the    *)
(* step mapping last.step, and last.merged what the call returned.         *)
(***************************************************************************)
MaxMapLen == 2

MergeEntries ==
    { MappingPos(0, 1), MappingPos(1, 2), DeletedPos(0), DeletedPos(1), DeletedPos(2),
      add_tajweed_rule(MappingPos(0, 2), "Qalqalah") }

MergeLists == UNION {[1..k -> MergeEntries] : k \in 0..MaxMapLen}

MergeInit ==
    /\ pc = "merge"
    /\ mappings \in {NoMappings} \cup {Mappings(l) : l \in MergeLists}
    /\ \E step \in MergeLists : last = [NoCall EXCEPT !.step = step]
    /\ orig = <<>>
    /\ text = <<>>
    /\ err = "ok"
    /\ tags = FreshTags
    /\ nsteps = 0
    /\ ctor_args = <<>>
    /\ OPERATION_ORDER = <<>>
    /\ op_idx = 0
    /\ reg_idx = 0
    /\ applied = <<>>
    /\ remove_spaces = FALSE
    /\ SearchIdle

\* result = merge_mappings(mappings, step)
MergeCall ==
    /\ pc = "merge"
    /\ pc' = "merged"
    /\ last' = [last EXCEPT !.mappings = mappings,
                            !.merged = merge_mappings(mappings, last.step)]
    /\ err' = merge_mappings(mappings, last.step).err
    /\ mappings' = MergedInPlace(mappings, last.step)
    /\ UNCHANGED <<orig, text, tags, nsteps, ctor_args, OPERATION_ORDER, op_idx,
                   reg_idx, applied, remove_spaces>>
    /\ UNCHANGED search_vars

MergeNext == MergeCall

MergeSpec == MergeInit /\ [][MergeNext]_vars

(***************************************************************************)
(* search.py.  The ayas are inputs: Aya, quran_phonetizer's operations and *)
(* chunck_phonemes are taken as given, an aya carrying its Uthmani text,   *)
(* its words, the phonetizer's mapping (remove_spaces=True) and the        *)
(* phoneme groups of its phonetic text.                                    *)
(***************************************************************************)
MaxAyas == 3
AyasPerSura == 2

rest_vars == <<orig, text, mappings, tags, nsteps, last, ctor_args, OPERATION_ORDER,
               op_idx, reg_idx, applied, remove_spaces>>

\* nothing of the conversion pipeline is running
CoreIdle ==
    /\ orig = <<>>
    /\ text = <<>>
    /\ mappings = NoMappings
    /\ tags = FreshTags
    /\ nsteps = 0
    /\ last = NoCall
    /\ ctor_args = <<>>
    /\ OPERATION_ORDER = <<>>
    /\ op_idx = 0
    /\ reg_idx = 0
    /\ applied = <<>>
    /\ remove_spaces = FALSE

Aya1 ==
    [uthmani |-> <<"a", space, space, "a">>,
     uthmani_words |-> << <<"a">>, <<"a">> >>,
     mappings |-> <<MappingPos(0, 1), DeletedPos(1), MappingPos(1, 2)>>,
     ph_groups |-> << <<"a">>, <<"a">> >>]

Aya2 ==
    [uthmani |-> <<alif, "a">>,
     uthmani_words |-> << <<alif, "a">> >>,
     mappings |-> <<MappingPos(0, 2), MappingPos(2, 3)>>,
     ph_groups |-> << <<alif, alif>>, <<"b">> >>]

Aya3 ==
    [uthmani |-> <<"b", space, alif>>,
     uthmani_words |-> << <<"b">>, <<alif>> >>,
     mappings |-> <<MappingPos(0, 1), DeletedPos(1), MappingPos(1, 3)>>,
     ph_groups |-> << <<"b">>, <<alif, alif>> >>]

\* the last group holds the end of the first word and the whole second word
Aya4 ==
    [uthmani |-> <<"b", "a", space, "a">>,
     uthmani_words |-> << <<"b", "a">>, <<"a">> >>,
     mappings |-> <<MappingPos(0, 1), MappingPos(1, 2), DeletedPos(2), MappingPos(2, 3)>>,
     ph_groups |-> << <<"b">>, <<"a", "a">> >>]

\* the second of three words yields no phoneme
Aya5 ==
    [uthmani |-> <<"a", space, "b", space, "a">>,
     uthmani_words |-> << <<"a">>, <<"b">>, <<"a">> >>,
     mappings |-> <<MappingPos(0, 1), DeletedPos(1), DeletedPos(1), DeletedPos(1),
                    MappingPos(1, 2)>>,
     ph_groups |-> << <<"a">>, <<"a">> >>]

AyaMenu == {Aya1, Aya2, Aya3, Aya4, Aya5}

Corpora == UNION {[1..n -> AyaMenu] : n \in 1..MaxAyas}

\* the sura and aya numbers of the k-th aya of the corpus (1-based k)
sura_idx(k) == ((k - 1) \div AyasPerSura) + 1
aya_idx(k) == ((k - 1) % AyasPerSura) + 1

clean_uthmani_spaces(uth_text) == SubWsEdge(<<>>, SubWsRun(<<space>>, uth_text, 0))

normalize_phonetic_groups(ph_groups) == [g \in 1..Len(ph_groups) |-> ph_groups[g][1]]

\* boundries: mappings[idx].pos[0] of every space, which must be deleted
RECURSIVE get_uth_word_boundaries_in_ph(_, _, _)
get_uth_word_boundaries_in_ph(uth_text, maps, idx) ==
    IF idx >= Len(uth_text) THEN [err |-> "ok", list |-> <<>>]
    ELSE IF At(uth_text, idx) # space
    THEN get_uth_word_boundaries_in_ph(uth_text, maps, idx + 1)
    ELSE IF ~InRange(maps, idx) THEN [err |-> "IndexError", list |-> <<>>]
    ELSE IF ~At(maps, idx).deleted THEN [err |-> "AssertionError", list |-> <<>>]
    ELSE [err |-> get_uth_word_boundaries_in_ph(uth_text, maps, idx + 1).err,
          list |-> <<At(maps, idx).start>>
                   \o get_uth_word_boundaries_in_ph(uth_text, maps, idx + 1).list]

\* ph_to_uth: a later Uthmani index overwrites an earlier one, the end marker all
get_phonetic_to_char_uthmani(maps) ==
    LET keys == UNION {maps[u].start..(maps[u].end - 1) : u \in 1..Len(maps)}
    IN [ph_idx \in keys \cup {At(maps, -1).end} |->
            IF ph_idx = At(maps, -1).end THEN Len(maps)
            ELSE (CHOOSE u \in 1..Len(maps) :
                    /\ maps[u].start <= ph_idx /\ ph_idx < maps[u].end
                    /\ \A v \in 1..Len(maps) :
                         (maps[v].start <= ph_idx /\ ph_idx < maps[v].end) => v <= u) - 1]

\* one round of the loop over ph_groups: the row appended and the counters moved;
\* first the round that leaves ph_start_idx where it was
GroupRound_stuck(k, ph_groups, uth_word_bound, ph_to_uth_idx, st, g_idx, ph_end_idx, next_ph_end_idx) ==
    IF st.ph_start_idx \notin DOMAIN ph_to_uth_idx \/ ph_end_idx \notin DOMAIN ph_to_uth_idx
    THEN [st EXCEPT !.err = "KeyError"]
    ELSE [err |-> "ok",
          rows |-> Append(st.rows,
                      [sura_idx |-> sura_idx(k), aya_idx |-> aya_idx(k),
                       uth_word |-> st.uth_word_idx,
                       uth_char_start |-> ph_to_uth_idx[st.ph_start_idx],
                       uth_char_end |-> ph_to_uth_idx[ph_end_idx],
                       ph_start |-> st.ph_start_idx,
                       ph_end |-> ph_end_idx]),
          ph_start_idx |-> st.ph_start_idx,
          next_ph_end_idx |-> next_ph_end_idx,
          uth_word_idx |->
              IF st.curr_wrd_bound_idx < Len(uth_word_bound)
                 /\ (\/ ph_end_idx >= uth_word_bound[st.curr_wrd_bound_idx + 1]
                     \/ /\ ph_end_idx < uth_word_bound[st.curr_wrd_bound_idx + 1]
                        /\ next_ph_end_idx > uth_word_bound[st.curr_wrd_bound_idx + 1])
              THEN st.uth_word_idx + 1 ELSE st.uth_word_idx,
          curr_wrd_bound_idx |->
              IF st.curr_wrd_bound_idx < Len(uth_word_bound)
                 /\ (\/ ph_end_idx >= uth_word_bound[st.curr_wrd_bound_idx + 1]
                     \/ /\ ph_end_idx < uth_word_bound[st.curr_wrd_bound_idx + 1]
                        /\ next_ph_end_idx > uth_word_bound[st.curr_wrd_bound_idx + 1])
              THEN st.curr_wrd_bound_idx + 1 ELSE st.curr_wrd_bound_idx]

\* the round that moves to the next word only when the group reaches the boundary
GroupRound_reached(k, ph_groups, uth_word_bound, ph_to_uth_idx, st, g_idx, ph_end_idx, next_ph_end_idx) ==
    IF st.ph_start_idx \notin DOMAIN ph_to_uth_idx \/ ph_end_idx \notin DOMAIN ph_to_uth_idx
    THEN [st EXCEPT !.err = "KeyError"]
    ELSE [err |-> "ok",
          rows |-> Append(st.rows,
                      [sura_idx |-> sura_idx(k), aya_idx |-> aya_idx(k),
                       uth_word |-> st.uth_word_idx,
                       uth_char_start |-> ph_to_uth_idx[st.ph_start_idx],
                       uth_char_end |-> ph_to_uth_idx[ph_end_idx],
                       ph_start |-> st.ph_start_idx,
                       ph_end |-> ph_end_idx]),
          ph_start_idx |-> ph_end_idx,
          next_ph_end_idx |-> next_ph_end_idx,
          uth_word_idx |->
              IF st.curr_wrd_bound_idx < Len(uth_word_bound)
                 /\ ph_end_idx >= uth_word_bound[st.curr_wrd_bound_idx + 1]
              THEN st.uth_word_idx + 1 ELSE st.uth_word_idx,
          curr_wrd_bound_idx |->
              IF st.curr_wrd_bound_idx < Len(uth_word_bound)
                 /\ ph_end_idx >= uth_word_bound[st.curr_wrd_bound_idx + 1]
              THEN st.curr_wrd_bound_idx + 1 ELSE st.curr_wrd_bound_idx]

GroupRound(k, ph_groups, uth_word_bound, ph_to_uth_idx, st, g_idx, ph_end_idx, next_ph_end_idx) ==
    IF st.ph_start_idx \notin DOMAIN ph_to_uth_idx \/ ph_end_idx \notin DOMAIN ph_to_uth_idx
    THEN [st EXCEPT !.err = "KeyError"]
    ELSE [err |-> "ok",
          rows |-> Append(st.rows,
                      [sura_idx |-> sura_idx(k), aya_idx |-> aya_idx(k),
                       uth_word |-> st.uth_word_idx,
                       uth_char_start |-> ph_to_uth_idx[st.ph_start_idx],
                       uth_char_end |-> ph_to_uth_idx[ph_end_idx],
                       ph_start |-> st.ph_start_idx,
                       ph_end |-> ph_end_idx]),
          ph_start_idx |-> ph_end_idx,
          next_ph_end_idx |-> next_ph_end_idx,
          uth_word_idx |->
              IF st.curr_wrd_bound_idx < Len(uth_word_bound)
                 /\ (\/ ph_end_idx >= uth_word_bound[st.curr_wrd_bound_idx + 1]
                     \/ /\ ph_end_idx < uth_word_bound[st.curr_wrd_bound_idx + 1]
                        /\ next_ph_end_idx > uth_word_bound[st.curr_wrd_bound_idx + 1])
              THEN st.uth_word_idx + 1 ELSE st.uth_word_idx,
          curr_wrd_bound_idx |->
              IF st.curr_wrd_bound_idx < Len(uth_word_bound)
                 /\ (\/ ph_end_idx >= uth_word_bound[st.curr_wrd_bound_idx + 1]
                     \/ /\ ph_end_idx < uth_word_bound[st.curr_wrd_bound_idx + 1]
                        /\ next_ph_end_idx > uth_word_bound[st.curr_wrd_bound_idx + 1])
              THEN st.curr_wrd_bound_idx + 1 ELSE st.curr_wrd_bound_idx]

\* the loop over the phoneme groups of one aya
RECURSIVE GroupRows(_, _, _, _, _, _)
GroupRows(k, ph_groups, uth_word_bound, ph_to_uth_idx, st, g_idx) ==
    IF st.err # "ok" \/ g_idx >= Len(ph_groups) THEN st
    ELSE GroupRows(k, ph_groups, uth_word_bound, ph_to_uth_idx,
           GroupRound(k, ph_groups, uth_word_bound, ph_to_uth_idx, st, g_idx,
                      st.ph_start_idx + Len(ph_groups[g_idx + 1]),
                      IF g_idx + 1 < Len(ph_groups)
                      THEN st.ph_start_idx + Len(ph_groups[g_idx + 1])
                           + Len(ph_groups[g_idx + 2])
                      ELSE st.next_ph_end_idx),
           g_idx + 1)

IndexedAya(k, aya, bound, rows) ==
    IF bound.err # "ok" THEN [err |-> bound.err, rows |-> rows]
    ELSE GroupRows(k, aya.ph_groups, bound.list, get_phonetic_to_char_uthmani(aya.mappings),
                   [err |-> "ok", rows |-> rows, ph_start_idx |-> 0, next_ph_end_idx |-> 0,
                    uth_word_idx |-> 0, curr_wrd_bound_idx |-> 0],
                   0)

\* np.array(ph_grp_to_index, dtype=np.uint16)
Uint16Size == 65536

uint16(v) == v % Uint16Size

index_array(rows) ==
    [r \in 1..Len(rows) |-> [f \in DOMAIN rows[r] |-> uint16(rows[r][f])]]

IndexInit ==
    /\ pc = "index"
    /\ err = "ok"
    /\ CoreIdle
    /\ corpus \in Corpora
    /\ aya_no = 0
    /\ ph_grp_to_index = <<>>
    /\ ref_ph = <<>>
    /\ disk = NoFiles
    /\ searcher = NoSearcher
    /\ threads = <<>>
    /\ explain_call = NoExplain
    /\ gm = NoGm
    /\ apply_call = NoApply

IndexedInto(r) ==
    /\ err' = r.err
    /\ pc' = IF r.err = "ok" THEN "index" ELSE "raised"
    /\ ph_grp_to_index' = r.rows

\* one round of the loop over the ayas
IndexAya ==
    /\ pc = "index"
    /\ aya_no < Len(corpus)
    /\ aya_no' = aya_no + 1
    /\ ref_ph' = ref_ph \o normalize_phonetic_groups(corpus[aya_no + 1].ph_groups)
    /\ IndexedInto(IndexedAya(aya_no + 1, corpus[aya_no + 1],
                              get_uth_word_boundaries_in_ph(
                                  clean_uthmani_spaces(corpus[aya_no + 1].uthmani),
                                  corpus[aya_no + 1].mappings, 0),
                              ph_grp_to_index))
    /\ UNCHANGED <<rest_vars, apply_call, explain_call, gm, corpus, disk, searcher, threads>>

\* np.save(index_path, index_array) and f.write(ref_ph)
SaveIndex ==
    /\ pc = "index"
    /\ aya_no = Len(corpus)
    /\ pc' = "saved"
    /\ disk' = [index |-> File(index_array(ph_grp_to_index)), ref |-> File(ref_ph)]
    /\ UNCHANGED <<rest_vars, apply_call, explain_call, gm, err, corpus, aya_no, ph_grp_to_index, ref_ph, searcher, threads>>

IndexNext == IndexAya \/ SaveIndex

IndexSpec == IndexInit /\ [][IndexNext]_vars

(***************************************************************************)
(* PhoneticSearch.  The matcher (fuzzysearch.find_near_matches) is a       *)
(* library: it returns some matches (start, end) of ref_ph_norm, in some   *)
(* order, each within max_l_dist edits of the query, and none only when    *)
(* there is none.  error_ratio is a number of RatioDen-ths.                *)
(***************************************************************************)
MaxMatches == 2
RatioDen == 2

newline == "nl"

\* str.strip()
RECURSIVE strip(_)
strip(t) ==
    IF t = <<>> THEN t
    ELSE IF Head(t) \in {space, newline} THEN strip(Tail(t))
    ELSE IF t[Len(t)] \in {space, newline} THEN strip(SubSeq(t, 1, Len(t) - 1))
    ELSE t

SearchCorpus == <<Aya1, Aya2, Aya3>>

\* the rows and the reference text create_phonemes_index leaves for a corpus
RECURSIVE index_rows(_, _, _)
index_rows(c, k, rows) ==
    IF k > Len(c) THEN rows
    ELSE index_rows(c, k + 1,
           IndexedAya(k, c[k],
                      get_uth_word_boundaries_in_ph(clean_uthmani_spaces(c[k].uthmani),
                                                    c[k].mappings, 0),
                      rows).rows)

RECURSIVE index_ref(_, _)
index_ref(c, k) ==
    IF k > Len(c) THEN <<>>
    ELSE normalize_phonetic_groups(c[k].ph_groups) \o index_ref(c, k + 1)

\* the data directory: what was saved, the reference text padded or cut, a file missing
Disks(c) ==
    { [index |-> File(index_array(index_rows(c, 1, <<>>))), ref |-> ref] :
        ref \in { File(index_ref(c, 1)),
                  File(index_ref(c, 1) \o <<newline>>),
                  File(<<space>> \o index_ref(c, 1)),
                  File(Tail(index_ref(c, 1))),
                  File(Tail(index_ref(c, 1)) \o <<newline>>),
                  Missing } }
    \cup { [index |-> Missing, ref |-> ref] : ref \in {File(index_ref(c, 1)), Missing} }

Queries ==
    { <<>>,
      << <<"a">> >>,
      << <<"a">>, <<alif, alif>> >>,
      << <<"b">>, <<"b">> >>,
      << <<"c">> >> }

ErrorRatios == (0 - 1)..(RatioDen + 1)

NoThread ==
    [pc |-> "called", query |-> <<>>, error_ratio |-> 0, norm_query |-> <<>>, max_edits |-> 0,
     outs |-> <<>>, results |-> <<>>, err |-> "ok", r |-> 0, uthmani |-> <<>>]

Thread(query, error_ratio) == [NoThread EXCEPT !.query = query, !.error_ratio = error_ratio]

\* __init__ that reads the reference text as it is
Constructed_nostrip(d) ==
    IF ~d.index.exists THEN [err |-> "FileNotFoundError", self |-> NoSearcher]
    ELSE IF ~d.ref.exists THEN [err |-> "FileNotFoundError", self |-> NoSearcher]
    ELSE IF Len(d.ref.content) # Len(d.index.content)
    THEN [err |-> "ValueError", self |-> NoSearcher]
    ELSE [err |-> "ok",
          self |-> [built |-> TRUE, index |-> d.index.content, ref_ph_norm |-> d.ref.content]]

Constructed(d) ==
    IF ~d.index.exists THEN [err |-> "FileNotFoundError", self |-> NoSearcher]
    ELSE IF ~d.ref.exists THEN [err |-> "FileNotFoundError", self |-> NoSearcher]
    ELSE IF Len(strip(d.ref.content)) # Len(d.index.content)
    THEN [err |-> "ValueError", self |-> NoSearcher]
    ELSE [err |-> "ok",
          self |-> [built |-> TRUE, index |-> d.index.content,
                    ref_ph_norm |-> strip(d.ref.content)]]

\* PhoneticSearch(data_dir)
Construct ==
    /\ pc = "new"
    /\ err' = Constructed(disk).err
    /\ pc' = IF Constructed(disk).err = "ok" THEN "ready" ELSE "raised"
    /\ searcher' = Constructed(disk).self
    /\ UNCHANGED <<rest_vars, apply_call, explain_call, gm, corpus, aya_no, ph_grp_to_index, ref_ph, disk, threads>>

\* the checks at the head of search
validated(th) ==
    IF th.query = <<>> THEN [th EXCEPT !.pc = "raised", !.err = "ValueError"]
    ELSE IF ~(th.error_ratio >= 0 /\ th.error_ratio <= RatioDen)
    THEN [th EXCEPT !.pc = "raised", !.err = "AssertionError"]
    ELSE [th EXCEPT !.pc = "validated"]

\* norm_query and max_edits = int(len(norm_query) * error_ratio)
normalized(th) ==
    [th EXCEPT !.pc = "normalized",
               !.norm_query = normalize_phonetic_groups(th.query),
               !.max_edits = (Len(th.query) * th.error_ratio) \div RatioDen]

\* self after _normalize_query: no attribute is assigned; first the method
\* that keeps the normalised query in self
self_after_normalize_cached(self, norm_query) == [self EXCEPT !.ref_ph_norm = norm_query]

self_after_normalize(self, norm_query) == self

Distance(s1, s2) == LevMatrix(s1, s2)[Len(s1) + 1][Len(s2) + 1]

NearMatches(subsequence, sequence, max_l_dist) ==
    { m \in [start : 0..Len(sequence), end : 0..Len(sequence)] :
        /\ m.start < m.end
        /\ Distance(subsequence, SubSeq(sequence, m.start + 1, m.end)) <= max_l_dist }

\* what find_near_matches may return
find_near_matches(subsequence, sequence, max_l_dist) ==
    IF NearMatches(subsequence, sequence, max_l_dist) = {} THEN { <<>> }
    ELSE { outs \in UNION { [1..n -> NearMatches(subsequence, sequence, max_l_dist)] :
                              n \in 1..MaxMatches } :
             \A x, y \in 1..Len(outs) : x # y => outs[x] # outs[y] }

\* search that returns the empty list when nothing matches
matched_empty(th, outs) ==
    IF outs = <<>> THEN [th EXCEPT !.pc = "returned", !.outs = outs]
    ELSE [th EXCEPT !.pc = "matched", !.outs = outs]

matched(th, outs) ==
    IF outs = <<>> THEN [th EXCEPT !.pc = "raised", !.err = "NoPhonemesSearchResult"]
    ELSE [th EXCEPT !.pc = "matched", !.outs = outs]

NoSpan == [err |-> "IndexError"]

\* _ref_idx_to_span that reads the start columns whatever end says
ref_idx_to_span_start(index, ref_idx, end) ==
    IF ref_idx < 0 \/ ref_idx >= Len(index) THEN NoSpan
    ELSE [err |-> "ok",
          sura_idx |-> index[ref_idx + 1].sura_idx,
          aya_idx |-> index[ref_idx + 1].aya_idx,
          uthmani_word_idx |-> index[ref_idx + 1].uth_word,
          uthmani_char_idx |-> index[ref_idx + 1].uth_char_start,
          phonemes_idx |-> index[ref_idx + 1].ph_start]

ref_idx_to_span(index, ref_idx, end) ==
    IF ref_idx < 0 \/ ref_idx >= Len(index) THEN NoSpan
    ELSE [err |-> "ok",
          sura_idx |-> index[ref_idx + 1].sura_idx,
          aya_idx |-> index[ref_idx + 1].aya_idx,
          uthmani_word_idx |-> index[ref_idx + 1].uth_word,
          uthmani_char_idx |-> IF end THEN index[ref_idx + 1].uth_char_end
                               ELSE index[ref_idx + 1].uth_char_start,
          phonemes_idx |-> IF end THEN index[ref_idx + 1].ph_end
                           ELSE index[ref_idx + 1].ph_start]

PhonmesSearhResult(index, out) ==
    [start |-> ref_idx_to_span(index, out.start, FALSE),
     end |-> ref_idx_to_span(index, out.end - 1, TRUE)]

\* the loop over outs
converted(th, index) ==
    IF \E m \in 1..Len(th.outs) :
          \/ PhonmesSearhResult(index, th.outs[m]).start.err # "ok"
          \/ PhonmesSearhResult(index, th.outs[m]).end.err # "ok"
    THEN [th EXCEPT !.pc = "raised", !.err = "IndexError"]
    ELSE [th EXCEPT !.pc = "returned",
                    !.results = [m \in 1..Len(th.outs) |-> PhonmesSearhResult(index, th.outs[m])]]

\* words[a:b]
Slice(words, a, b) == SubSeq(words, a + 1, Min2(b, Len(words)))

\* Aya(sura_idx, aya_idx) as a place in the corpus, and Aya.step(1)
AyaAt(c, sura, aya) == (sura - 1) * AyasPerSura + aya
aya_step(c, k) == IF k >= Len(c) THEN 1 ELSE k + 1

\* the while loop of get_uthmani_from_result; rounds counts the ayas visited
RECURSIVE out_uth_words(_, _, _, _, _)
out_uth_words(c, k, start_word_idx, r, rounds) ==
    IF ~(k \in 1..Len(c)) THEN [err |-> "IndexError", words |-> <<>>]
    ELSE IF sura_idx(k) = r.end.sura_idx /\ aya_idx(k) = r.end.aya_idx
    THEN [err |-> "ok",
          words |-> Slice(c[k].uthmani_words, start_word_idx, r.end.uthmani_word_idx + 1)]
    ELSE IF rounds > Len(c) THEN [err |-> "endless", words |-> <<>>]
    ELSE [err |-> out_uth_words(c, aya_step(c, k), 0, r, rounds + 1).err,
          words |-> Slice(c[k].uthmani_words, start_word_idx, Len(c[k].uthmani_words))
                    \o out_uth_words(c, aya_step(c, k), 0, r, rounds + 1).words]

\* alph.uthmani.space.join(words)
RECURSIVE join(_, _)
join(sep, words) ==
    IF words = <<>> THEN <<>>
    ELSE IF Len(words) = 1 THEN words[1]
    ELSE words[1] \o sep \o join(sep, Tail(words))

\* get_uthmani_from_result that always starts at the first word
get_uthmani_from_result_word0(c, r) ==
    [err |-> out_uth_words(c, AyaAt(c, r.start.sura_idx, r.start.aya_idx), 0, r, 0).err,
     text |-> join(<<space>>,
                   out_uth_words(c, AyaAt(c, r.start.sura_idx, r.start.aya_idx), 0, r, 0).words)]

get_uthmani_from_result(c, r) ==
    [err |-> out_uth_words(c, AyaAt(c, r.start.sura_idx, r.start.aya_idx),
                           r.start.uthmani_word_idx, r, 0).err,
     text |-> join(<<space>>,
                   out_uth_words(c, AyaAt(c, r.start.sura_idx, r.start.aya_idx),
                                 r.start.uthmani_word_idx, r, 0).words)]

with_uthmani(th, r, out) ==
    [th EXCEPT !.pc = IF out.err = "ok" THEN "done" ELSE "raised",
               !.err = out.err, !.r = r, !.uthmani = out.text]

\* a caller's steps, one thread each
Validate(t) ==
    /\ pc = "ready"
    /\ threads[t].pc = "called"
    /\ threads' = [threads EXCEPT ![t] = validated(@)]
    /\ UNCHANGED <<rest_vars, apply_call, explain_call, gm, pc, err, corpus, aya_no, ph_grp_to_index, ref_ph, disk, searcher>>

Normalize(t) ==
    /\ threads[t].pc = "validated"
    /\ threads' = [threads EXCEPT ![t] = normalized(@)]
    /\ searcher' = self_after_normalize(searcher, normalize_phonetic_groups(threads[t].query))
    /\ UNCHANGED <<rest_vars, apply_call, explain_call, gm, pc, err, corpus, aya_no, ph_grp_to_index, ref_ph, disk>>

Match(t) ==
    /\ threads[t].pc = "normalized"
    /\ \E outs \in find_near_matches(threads[t].norm_query, searcher.ref_ph_norm,
                                     threads[t].max_edits) :
           threads' = [threads EXCEPT ![t] = matched(@, outs)]
    /\ UNCHANGED <<rest_vars, apply_call, explain_call, gm, pc, err, corpus, aya_no, ph_grp_to_index, ref_ph, disk, searcher>>

Convert(t) ==
    /\ threads[t].pc = "matched"
    /\ threads' = [threads EXCEPT ![t] = converted(@, searcher.index)]
    /\ UNCHANGED <<rest_vars, apply_call, explain_call, gm, pc, err, corpus, aya_no, ph_grp_to_index, ref_ph, disk, searcher>>

GetUthmani(t) ==
    /\ threads[t].pc = "returned"
    /\ \E r \in 1..Len(threads[t].results) :
           threads' = [threads EXCEPT ![t] =
                          with_uthmani(@, r, get_uthmani_from_result(corpus, @.results[r]))]
    /\ UNCHANGED <<rest_vars, apply_call, explain_call, gm, pc, err, corpus, aya_no, ph_grp_to_index, ref_ph, disk, searcher>>

SearchStart(callers) ==
    /\ pc = "new"
    /\ err = "ok"
    /\ CoreIdle
    /\ corpus = SearchCorpus
    /\ aya_no = Len(corpus)
    /\ ph_grp_to_index = index_rows(corpus, 1, <<>>)
    /\ ref_ph = index_ref(corpus, 1)
    /\ searcher = NoSearcher
    /\ threads \in callers
    /\ explain_call = NoExplain
    /\ gm = NoGm
    /\ apply_call = NoApply

\* one caller, any data directory
SearchInit ==
    /\ SearchStart([1..1 -> {Thread(q, e) : q \in Queries, e \in ErrorRatios}])
    /\ disk \in Disks(SearchCorpus)

Validation == \E t \in DOMAIN threads : Validate(t)
Normalization == \E t \in DOMAIN threads : Normalize(t)
Matching == \E t \in DOMAIN threads : Match(t)
Conversion == \E t \in DOMAIN threads : Convert(t)
UthmaniLookup == \E t \in DOMAIN threads : GetUthmani(t)

SearchNext ==
    Construct \/ Validation \/ Normalization \/ Matching \/ Conversion \/ UthmaniLookup

SearchSpec == SearchInit /\ [][SearchNext]_vars

\* two callers of one object, exact searches
ParInit ==
    /\ SearchStart([1..2 -> {Thread(q, 0) : q \in Queries}])
    /\ disk \in {d \in Disks(SearchCorpus) : Constructed(d).err = "ok"}

ParSpec == ParInit /\ [][SearchNext]_vars

(***************************************************************************)
(* error_explainer.py.  chunck_phonemes is taken as given: the reference   *)
(* and the predicted phoneme texts come as their groups, and a text is the *)
(* concatenation of its groups.                                            *)
(***************************************************************************)
MaxGroups == 3

PhGroups == { <<"t", "a">>, <<"t", "u">>, <<"k", "a">>, <<alif, alif>>, <<alif>> }

\* a reference: the length of the Uthmani text, the phonetizer's mapping and
\* the groups of the reference phonemes
RefCases ==
    { [uthmani_len |-> 4,
       mappings |-> <<MappingPos(0, 1), MappingPos(1, 2), MappingPos(2, 3), MappingPos(3, 4)>>,
       ref_ph_groups |-> << <<"t", "a">>, <<"k", "a">> >>],
      [uthmani_len |-> 4,
       mappings |-> <<MappingPos(0, 1), MappingPos(1, 2),
                      add_tajweed_rule(MappingPos(2, 4), "NormalMadd"), DeletedPos(4)>>,
       ref_ph_groups |-> << <<"t", "a">>, <<alif, alif>> >>],
      [uthmani_len |-> 3,
       mappings |-> <<add_tajweed_rule(MappingPos(0, 2), "Qalqalah"),
                      MappingPos(2, 3), MappingPos(3, 4)>>,
       ref_ph_groups |-> << <<"k", qlqla>>, <<"t", "a">> >>] }

PredGroups == UNION {[1..n -> PhGroups] : n \in 0..MaxGroups}

RECURSIVE Flat(_)
Flat(groups) == IF groups = <<>> THEN <<>> ELSE Head(groups) \o Flat(Tail(groups))

\* the text before group g_idx (0-based) is this long
RECURSIVE GroupStart(_, _)
GroupStart(groups, g_idx) ==
    IF g_idx = 0 THEN 0 ELSE GroupStart(groups, g_idx - 1) + Len(groups[g_idx])

extract_ref_phonetic_to_uthmani(maps) ==
    IF \E u, v \in 1..Len(maps) :
          /\ u < v
          /\ \E ph_idx \in maps[u].start..(maps[u].end - 1) :
                 maps[v].start <= ph_idx /\ ph_idx < maps[v].end
    THEN [err |-> "ValueError", map |-> <<>>]
    ELSE [err |-> "ok",
          map |-> [ph_idx \in UNION {maps[u].start..(maps[u].end - 1) : u \in 1..Len(maps)} |->
                     (CHOOSE u \in 1..Len(maps) :
                         maps[u].start <= ph_idx /\ ph_idx < maps[u].end) - 1]]

\* the rules of one group: those of every Uthmani index its phonemes come from,
\* an index counted once
RECURSIVE GroupRules(_, _, _, _, _)
GroupRules(maps, ref_ph_to_uthmani, ph_idx, end, used_uth_ids) ==
    IF ph_idx >= end THEN [err |-> "ok", rules |-> <<>>]
    ELSE IF ph_idx \notin DOMAIN ref_ph_to_uthmani THEN [err |-> "KeyError", rules |-> <<>>]
    ELSE [err |-> GroupRules(maps, ref_ph_to_uthmani, ph_idx + 1, end,
                             used_uth_ids \cup {ref_ph_to_uthmani[ph_idx]}).err,
          rules |-> (IF ref_ph_to_uthmani[ph_idx] \in used_uth_ids THEN <<>>
                     ELSE maps[ref_ph_to_uthmani[ph_idx] + 1].rules)
                    \o GroupRules(maps, ref_ph_to_uthmani, ph_idx + 1, end,
                                  used_uth_ids \cup {ref_ph_to_uthmani[ph_idx]}).rules]

get_ref_phonetic_groups_tajweed_rules(ref_ph_groups, maps, ref_ph_to_uthmani) ==
    [g \in 1..Len(ref_ph_groups) |->
        GroupRules(maps, ref_ph_to_uthmani, GroupStart(ref_ph_groups, g - 1),
                   GroupStart(ref_ph_groups, g), {})]

PhonemesGroupsAligment(op_type, ref_idx, pred_idx) ==
    [op_type |-> op_type, ref_idx |-> ref_idx, pred_idx |-> pred_idx]

\* one opcode taken apart, one alignment for every index it changes
Disassembled(out) ==
    IF out.tag \in {"equal", "replace"}
    THEN [k \in 1..Min2(out.i2 - out.i1, out.j2 - out.j1) |->
             PhonemesGroupsAligment(out.tag, out.i1 + k - 1, out.j1 + k - 1)]
    ELSE IF out.tag = "insert"
    THEN [k \in 1..(out.j2 - out.j1) |->
             PhonemesGroupsAligment("insert", out.i1, out.j1 + k - 1)]
    ELSE [k \in 1..(out.i2 - out.i1) |->
             PhonemesGroupsAligment("delete", out.i1 + k - 1, out.j1)]

RECURSIVE AllDisassembled(_)
AllDisassembled(ops) ==
    IF ops = <<>> THEN <<>> ELSE Disassembled(Head(ops)) \o AllDisassembled(Tail(ops))

align_phonemes_groups(ref_ph_groups, pred_ph_groups) ==
    AllDisassembled(opcodes(normalize_phonetic_groups(ref_ph_groups),
                            normalize_phonetic_groups(pred_ph_groups)))

\* the rule classes of tajweed_rulses.py
correctness_type(rule) == IF rule = "Qalqalah" THEN "match" ELSE "count"
golden_len(rule) == IF rule = "Qalqalah" THEN 0 ELSE 2

\* get_relvant_rule: no rule, or the rule (a madd rule with the tag of the phoneme)
get_relvant_rule(rule, ph_str) ==
    IF rule = "Qalqalah" THEN << [rule |-> rule, tag |-> NoTag] >>
    ELSE IF ph_str[1] \notin DOMAIN _madd_to_tag THEN <<>>
    ELSE << [rule |-> rule, tag |-> _madd_to_tag[ph_str[1]]] >>

RECURSIVE Occurrences(_, _)
Occurrences(txt, ch) ==
    IF txt = <<>> THEN 0
    ELSE (IF Head(txt) = ch THEN 1 ELSE 0) + Occurrences(Tail(txt), ch)

\* MaddRule.count, TajweedRule.count for the others
count(rule, ref_text, pred_text) ==
    IF rule = "Qalqalah" THEN 0
    ELSE IF pred_text[Len(pred_text)] # pred_text[1]
    THEN Occurrences(SubSeq(pred_text, 1, Len(pred_text) - 1), ref_text[1])
    ELSE Occurrences(pred_text, ref_text[1])

\* an optional value is the empty sequence (None) or the value alone
ReciterError(uthmani_pos, ph_pos, error_type, speech_error_type, expected_ph, preditected_ph, expected_len, predicted_len, tajweed_rules, predicted_tajweed_rules) ==
    [uthmani_pos |-> uthmani_pos, ph_pos |-> ph_pos, error_type |-> error_type,
     speech_error_type |-> speech_error_type, expected_ph |-> expected_ph,
     preditected_ph |-> preditected_ph, expected_len |-> expected_len,
     predicted_len |-> predicted_len, tajweed_rules |-> tajweed_rules,
     predicted_tajweed_rules |-> predicted_tajweed_rules]

\* the errors of a replaced group
ReplaceErrors(uthmani_pos, ph_pos, ref_ph_g, pred_ph_g, rules) ==
    IF rules = <<>>
    THEN << ReciterError(uthmani_pos, ph_pos, "normal", "replace", ref_ph_g, pred_ph_g,
                          <<>>, <<>>, <<>>, <<>>) >>
    ELSE [k \in 1..Len(rules) |->
            IF get_relvant_rule(rules[k], pred_ph_g) = <<>>
            THEN ReciterError(uthmani_pos, ph_pos, "tajweed", "replace", ref_ph_g, pred_ph_g,
                              <<>>, <<>>, <<rules[k]>>, <<>>)
            ELSE IF correctness_type(rules[k]) = "count"
            THEN ReciterError(uthmani_pos, ph_pos, "tajweed", "replace", ref_ph_g, pred_ph_g,
                              <<golden_len(rules[k])>>, <<count(rules[k], pred_ph_g, pred_ph_g)>>,
                              <<rules[k]>>, get_relvant_rule(rules[k], pred_ph_g))
            ELSE ReciterError(uthmani_pos, ph_pos, "tajweed", "replace", ref_ph_g, pred_ph_g,
                              <<>>, <<>>, <<rules[k]>>, get_relvant_rule(rules[k], pred_ph_g))]

\* the errors of a group aligned as equal: one for each rule of the reference
\* group when the two groups differ (the list of rules is never None, so the
\* branches after it are never taken)
EqualErrors(uthmani_pos, ph_pos, ref_ph_g, pred_ph_g, rules) ==
    IF ref_ph_g = pred_ph_g THEN <<>>
    ELSE [k \in 1..Len(rules) |->
            IF correctness_type(rules[k]) = "count"
            THEN ReciterError(uthmani_pos, ph_pos, "tajweed", "replace", ref_ph_g, pred_ph_g,
                              <<golden_len(rules[k])>>, <<count(rules[k], ref_ph_g, pred_ph_g)>>,
                              <<rules[k]>>, <<>>)
            ELSE ReciterError(uthmani_pos, ph_pos, "tajweed", "replace", ref_ph_g, pred_ph_g,
                              <<>>, <<>>, <<rules[k]>>, <<>>)]

\* the errors one alignment adds
AlignErrors(maps, ref_ph_to_uthmani, rules, st, align, uthmani_pos, ph_pos, ref_ph_g, pred_ph_g) ==
    IF align.op_type = "insert"
    THEN << ReciterError(uthmani_pos, ph_pos, "normal", "insert", <<>>, pred_ph_g,
                          <<>>, <<>>, <<>>, <<>>) >>
    ELSE IF align.op_type = "replace"
    THEN ReplaceErrors(uthmani_pos, ph_pos, ref_ph_g, pred_ph_g, rules)
    ELSE IF align.op_type = "delete"
    THEN << ReciterError(uthmani_pos, ph_pos,
                          IF maps[ref_ph_to_uthmani[st.ref_ph_start] + 1].rules # <<>>
                          THEN "tajweed" ELSE "normal",
                          "delete", ref_ph_g, <<>>, <<>>, <<>>, <<>>, <<>>) >>
    ELSE EqualErrors(uthmani_pos, ph_pos, ref_ph_g, pred_ph_g, rules)

\* one round of the loop over the alignments, the two groups in hand
ExplainRound(maps, ref_ph_to_uthmani, rules, st, align, ref_ph_g, pred_ph_g) ==
    IF align.op_type # "insert"
    THEN IF \/ st.ref_ph_start \notin DOMAIN ref_ph_to_uthmani
            \/ (st.ref_ph_start + Len(ref_ph_g) - 1) \notin DOMAIN ref_ph_to_uthmani
         THEN [st EXCEPT !.err = "KeyError"]
         ELSE [err |-> "ok",
               errors |-> st.errors \o
                   AlignErrors(maps, ref_ph_to_uthmani, rules, st, align,
                               <<ref_ph_to_uthmani[st.ref_ph_start],
                                 ref_ph_to_uthmani[st.ref_ph_start + Len(ref_ph_g) - 1] + 1>>,
                               <<st.ref_ph_start, st.ref_ph_start + Len(ref_ph_g)>>,
                               ref_ph_g, pred_ph_g),
               pred_ph_start |-> st.pred_ph_start + Len(pred_ph_g),
               ref_ph_start |-> st.ref_ph_start + Len(ref_ph_g)]
    ELSE IF st.ref_ph_start \notin DOMAIN ref_ph_to_uthmani
         THEN [st EXCEPT !.err = "KeyError"]
         ELSE [err |-> "ok",
               errors |-> st.errors \o
                   AlignErrors(maps, ref_ph_to_uthmani, rules, st, align,
                               <<ref_ph_to_uthmani[st.ref_ph_start],
                                 ref_ph_to_uthmani[st.ref_ph_start]>>,
                               <<st.ref_ph_start, st.ref_ph_start>>,
                               ref_ph_g, pred_ph_g),
               pred_ph_start |-> st.pred_ph_start + Len(pred_ph_g),
               ref_ph_start |-> st.ref_ph_start]

\* the loop over the alignments; the two groups are read first
RECURSIVE ExplainLoop(_, _, _, _, _, _, _, _)
ExplainLoop(ref_ph_groups, pred_ph_groups, maps, ref_ph_to_uthmani, rules, alignmets, st, a) ==
    IF st.err # "ok" \/ a > Len(alignmets) THEN st
    ELSE IF alignmets[a].ref_idx >= Len(ref_ph_groups)
            \/ alignmets[a].pred_idx >= Len(pred_ph_groups)
    THEN [st EXCEPT !.err = "IndexError"]
    ELSE ExplainLoop(ref_ph_groups, pred_ph_groups, maps, ref_ph_to_uthmani, rules, alignmets,
           ExplainRound(maps, ref_ph_to_uthmani, rules[alignmets[a].ref_idx + 1].rules, st,
                        alignmets[a], ref_ph_groups[alignmets[a].ref_idx + 1],
                        pred_ph_groups[alignmets[a].pred_idx + 1]),
           a + 1)

ExplainedWith(ref_ph_groups, pred_ph_groups, maps, ref_ph_to_uthmani, rules) ==
    IF ref_ph_to_uthmani.err # "ok" THEN [err |-> ref_ph_to_uthmani.err, errors |-> <<>>]
    ELSE IF \E g \in 1..Len(rules) : rules[g].err # "ok"
    THEN [err |-> "KeyError", errors |-> <<>>]
    ELSE ExplainLoop(ref_ph_groups, pred_ph_groups, maps, ref_ph_to_uthmani.map, rules,
                     align_phonemes_groups(ref_ph_groups, pred_ph_groups),
                     [err |-> "ok", errors |-> <<>>, pred_ph_start |-> 0, ref_ph_start |-> 0],
                     1)

explain_error(ref_ph_groups, pred_ph_groups, maps) ==
    ExplainedWith(ref_ph_groups, pred_ph_groups, maps, extract_ref_phonetic_to_uthmani(maps),
                  IF extract_ref_phonetic_to_uthmani(maps).err # "ok" THEN <<>>
                  ELSE get_ref_phonetic_groups_tajweed_rules(
                           ref_ph_groups, maps, extract_ref_phonetic_to_uthmani(maps).map))

ExplainInit ==
    /\ pc = "explain"
    /\ err = "ok"
    /\ CoreIdle
    /\ corpus = <<>>
    /\ aya_no = 0
    /\ ph_grp_to_index = <<>>
    /\ ref_ph = <<>>
    /\ disk = NoFiles
    /\ searcher = NoSearcher
    /\ threads = <<>>
    /\ gm = NoGm
    /\ apply_call = NoApply
    /\ \E ref \in RefCases, pred \in PredGroups :
          explain_call = [uthmani_len |-> ref.uthmani_len, mappings |-> ref.mappings,
                          ref_ph_groups |-> ref.ref_ph_groups, pred_ph_groups |-> pred,
                          errors |-> <<>>]

ExplainedInto(out) ==
    /\ err' = out.err
    /\ pc' = IF out.err = "ok" THEN "explained" ELSE "raised"
    /\ explain_call' = [explain_call EXCEPT !.errors = IF out.err = "ok" THEN out.errors ELSE <<>>]

\* errors = explain_error(uthmani_text, ref_ph_text, predicted_ph_text, mappings)
Explain ==
    /\ pc = "explain"
    /\ ExplainedInto(explain_error(explain_call.ref_ph_groups, explain_call.pred_ph_groups,
                                   explain_call.mappings))
    /\ UNCHANGED <<rest_vars, apply_call, gm, corpus, aya_no, ph_grp_to_index, ref_ph, disk, searcher, threads>>

ExplainNext == Explain

ExplainSpec == ExplainInit /\ [][ExplainNext]_vars

(***************************************************************************)
(* ConversionOperation.apply(text, moshaf, mappings, discard_ops, mode).    *)
(* The call and its recursive calls are the frames of apply_call.stack: a   *)
(* frame holds its operation, how many of its ops_before the loop has       *)
(* passed and how many rounds of forward it has made.  The operations are   *)
(* built from the constructor arguments above, with ops_before given.       *)
(***************************************************************************)
CtorOf(name) == CHOOSE a \in CtorArgs : a.arabic_name = name

MaddOp == ConversionOperation(CtorOf("Madd"))

QalqlaOp == ConversionOperation([CtorOf("Qalqla") EXCEPT !.ops_before = <<MaddOp>>])

CleanEndOp ==
    ConversionOperation([CtorOf("CleanEnd") EXCEPT !.ops_before = <<QalqlaOp, MaddOp>>])

HmzOp ==
    ConversionOperation([CtorOf("RemoveHmzatWaslMiddle") EXCEPT !.ops_before = <<CleanEndOp>>])

ApplyOps == {MaddOp, QalqlaOp, CleanEndOp, HmzOp}

Modes == {"inference", "test", "train"}

Frame(op) == [op |-> op, before |-> 0, reg |-> 0]

ApplyInit ==
    /\ pc = "apply"
    /\ orig \in Texts(UthAlphabet, MaxUthLen)
    /\ text = orig
    /\ mappings = NoMappings
    /\ err = "ok"
    /\ tags = FreshTags
    /\ nsteps = 0
    /\ last = NoCall
    /\ ctor_args = <<>>
    /\ OPERATION_ORDER = <<>>
    /\ op_idx = 0
    /\ reg_idx = 0
    /\ applied = <<>>
    /\ remove_spaces = FALSE
    /\ corpus = <<>>
    /\ aya_no = 0
    /\ ph_grp_to_index = <<>>
    /\ ref_ph = <<>>
    /\ disk = NoFiles
    /\ searcher = NoSearcher
    /\ threads = <<>>
    /\ explain_call = NoExplain
    /\ gm = NoGm
    /\ \E op \in ApplyOps, mode \in Modes, discard_ops \in SUBSET (ApplyOps \ {HmzOp}) :
          apply_call = [stack |-> <<Frame(op)>>, mode |-> mode, discard_ops |-> discard_ops]

\* the frame of the innermost call
Top == apply_call.stack[Len(apply_call.stack)]

discard_ops_names == {o.arabic_name : o \in apply_call.discard_ops}

apply_frame_vars == <<orig, ctor_args, OPERATION_ORDER, op_idx, reg_idx, remove_spaces,
                      corpus, aya_no, ph_grp_to_index, ref_ph, disk, searcher, threads,
                      explain_call, gm>>

\* the loop over ops_before meets an operation that is not discarded:
\* op.apply(text, moshaf, mappings, mode="test", discard_ops=discard_ops)
ApplyBefore ==
    /\ pc = "apply"
    /\ apply_call.mode = "test"
    /\ Top.before < Len(Top.op.ops_before)
    /\ Top.op.ops_before[Top.before + 1].arabic_name \notin discard_ops_names
    /\ apply_call' = [apply_call EXCEPT
          !.stack = Append([@ EXCEPT ![Len(@)].before = @ + 1],
                           Frame(Top.op.ops_before[Top.before + 1]))]
    /\ UNCHANGED <<pc, text, mappings, err, tags, nsteps, last, applied>>
    /\ UNCHANGED apply_frame_vars

\* the loop over ops_before passes an operation whose name is discarded
ApplyDiscarded ==
    /\ pc = "apply"
    /\ apply_call.mode = "test"
    /\ Top.before < Len(Top.op.ops_before)
    /\ Top.op.ops_before[Top.before + 1].arabic_name \in discard_ops_names
    /\ apply_call' = [apply_call EXCEPT !.stack[Len(apply_call.stack)].before = @ + 1]
    /\ UNCHANGED <<pc, text, mappings, err, tags, nsteps, last, applied>>
    /\ UNCHANGED apply_frame_vars

\* one round of self.forward(text, moshaf, mappings); after the last round a
\* recursive call returns to its caller's loop, and the outermost call returns
\* (its frame is kept to tell what was called)
ApplyForward ==
    /\ pc = "apply"
    /\ apply_call.mode \in {"inference", "test"}
    /\ apply_call.mode = "test" => Top.before = Len(Top.op.ops_before)
    /\ Call(Top.op.regs[Top.reg + 1].pattern, Top.op.regs[Top.reg + 1].repl,
            Top.op.tajweed_rules[Top.reg + 1])
    /\ applied' = Append(applied, [op |-> Top.op.arabic_name, reg |-> Top.reg])
    /\ apply_call' = [apply_call EXCEPT
          !.stack = IF Top.reg + 1 >= ForwardLen(Top.op) /\ Len(@) > 1
                    THEN SubSeq(@, 1, Len(@) - 1)
                    ELSE [@ EXCEPT ![Len(@)].reg = @ + 1]]
    /\ pc' = IF err' # "ok" THEN "raised"
             ELSE IF Top.reg + 1 >= ForwardLen(Top.op) /\ Len(apply_call.stack) = 1
             THEN "returned"
             ELSE "apply"
    /\ UNCHANGED apply_frame_vars

\* raise ValueError(f"Invalid Model got: `{mode}`")
ApplyInvalidMode ==
    /\ pc = "apply"
    /\ apply_call.mode \notin {"inference", "test"}
    /\ pc' = "raised"
    /\ err' = "ValueError"
    /\ UNCHANGED <<text, mappings, tags, nsteps, last, applied, apply_call>>
    /\ UNCHANGED apply_frame_vars

ApplyNext == ApplyBefore \/ ApplyDiscarded \/ ApplyForward \/ ApplyInvalidMode

ApplySpec == ApplyInit /\ [][ApplyNext]_vars

(***************************************************************************)
(* One get_mappings(text, new_text, None, tajweed_rule) call followed pass *)
(* by pass: the walk over the opcodes, the Leen Madd tags, the tanween     *)
(* pass, the shadda pass, merge_mappings, the qalqalah pass and the        *)
(* closing check.  The texts are drawn over one of a few small alphabets,  *)
(* each with the rule its rewrites carry.                                  *)
(***************************************************************************)
MaxSrcLen == 4
MaxDstLen == 3

StepAlphabets ==
    { [src |-> {"a", "b"}, dst |-> {"a", "b"}, rule |-> "NormalMadd"],
      [src |-> {"a", space, shadda}, dst |-> {"a", space, shadda}, rule |-> "NormalMadd"],
      [src |-> {"a", ras_haaa, qlqla}, dst |-> {"a", ras_haaa, qlqla}, rule |-> "Qalqalah"],
      [src |-> {"a", tanween_idhaam_dterminer}, dst |-> {"a", tanween_idhaam_dterminer},
       rule |-> "NormalMadd"],
      [src |-> {alif, waw_madd}, dst |-> {alif, waw_madd}, rule |-> "LeenMadd"] }

GmInit ==
    /\ pc = "gm_walk"
    /\ err = "ok"
    /\ CoreIdle
    /\ corpus = <<>>
    /\ aya_no = 0
    /\ ph_grp_to_index = <<>>
    /\ ref_ph = <<>>
    /\ disk = NoFiles
    /\ searcher = NoSearcher
    /\ threads = <<>>
    /\ explain_call = NoExplain
    /\ apply_call = NoApply
    /\ \E al \in StepAlphabets :
          \E t \in Texts(al.src, MaxSrcLen), n \in Texts(al.dst, MaxDstLen) :
              gm = [text |-> t, new_text |-> n, rule |-> al.rule, st |-> NoGm.st]

\* the pass at from_pc has left st; an exception ends the call
GmPass(from_pc, to_pc, st) ==
    /\ pc = from_pc
    /\ gm' = [gm EXCEPT !.st = st]
    /\ err' = st.err
    /\ pc' = IF st.err = "ok" THEN to_pc ELSE "raised"
    /\ UNCHANGED <<rest_vars, apply_call, explain_call, corpus, aya_no, ph_grp_to_index, ref_ph, disk,
                   searcher, threads>>

\* if len(text) == 0: return []
GmEmpty ==
    /\ gm.text = <<>>
    /\ GmPass("gm_walk", "returned", gm.st)

GmWalk ==
    /\ gm.text # <<>>
    /\ GmPass("gm_walk", "gm_leen", StepMappings(gm.text, gm.new_text, gm.rule, gm.st.tags))

GmLeenMadd == GmPass("gm_leen", "gm_tanween", LeenMaddPass(gm.st, gm.new_text, 0))

GmTanween ==
    GmPass("gm_tanween", "gm_shadda",
           TanweenPass(gm.st, gm.text, gm.new_text, TanweenMatches(gm.text, 0), 1))

GmShadda == GmPass("gm_shadda", "gm_merge", ShaddaPass(gm.st, ShaddaMatches(gm.text, 0), 1))

\* new_mappings = merge_mappings(None, new_mappings)
GmMerge ==
    GmPass("gm_merge", "gm_qalqalah",
           [gm.st EXCEPT !.m = merge_mappings(NoMappings, gm.st.m).list,
                         !.err = merge_mappings(NoMappings, gm.st.m).err])

GmQalqalah ==
    GmPass("gm_qalqalah", "gm_check", QalqalahPass(gm.st, QlqMatches(gm.new_text, 0), 1))

\* the closing check of contiguity, then return new_mappings
GmReturn ==
    GmPass("gm_check", "returned",
           IF ContiguityOk(gm.st.m, gm.new_text) THEN gm.st
           ELSE [gm.st EXCEPT !.err = "ContiguityError"])

GmNext ==
    \/ GmEmpty \/ GmWalk \/ GmLeenMadd \/ GmTanween \/ GmShadda \/ GmMerge \/ GmQalqalah
    \/ GmReturn

GmSpec == GmInit /\ [][GmNext]_vars

(***************************************************************************)
(* Properties of a chain of sub_with_mapping calls (ChainSpec).            *)
(***************************************************************************)
M == mappings.list

\* the last call of the chain returned
Returned == pc = "chain" /\ nsteps > 0 /\ err = "ok"

\* the invariant of a span: deleted exactly when empty
SpanInv(l) ==
    \A i \in 1..Len(l) : IF l[i].deleted THEN l[i].start = l[i].end
                         ELSE l[i].end > l[i].start

IdentityMapping(n) == [i \in 1..n |-> MappingPos(i - 1, i)]

\* C1: every returned mapping of a chain is contiguous: two non-deleted spans
\* with no non-deleted span between them meet, spans[i].end = spans[j].start.
C1_Contiguity ==
    Returned =>
        \A i, j \in 1..Len(M) :
            (/\ i < j
             /\ ~M[i].deleted
             /\ ~M[j].deleted
             /\ \A k \in (i + 1)..(j - 1) : M[k].deleted)
            => M[i].end = M[j].start

\* C2: in a mapping returned for a non-empty text the first span starts at 0,
\* the last ends at len(new_text) and every codepoint of new_text lies in the
\* span of exactly one source index.
C2_Coverage ==
    (Returned /\ last.text # <<>>) =>
        /\ M[1].start = 0
        /\ M[Len(M)].end = Len(text)
        /\ \A c \in 0..(Len(text) - 1) :
               Cardinality({i \in 1..Len(M) :
                   ~M[i].deleted /\ M[i].start <= c /\ c < M[i].end}) = 1

\* C3: in every returned mapping a span marked deleted has start = end and a
\* span not marked deleted has end > start.
C3_DeletedIffEmpty == Returned => SpanInv(M)

\* C4: along a chain the returned mapping always has as many entries as the
\* original input text has codepoints, also after an empty intermediate text.
C4_LengthPreserved == Returned => Len(M) = Len(orig)

\* what C5 says merge_mappings makes of acc[i]
ClaimedMerge(old_map, step) ==
    LET lo == old_map.start
        hi == old_map.end
    IN IF old_map.deleted
       THEN [old_map EXCEPT
                !.start = IF lo < Len(step) THEN At(step, lo).start ELSE At(step, -1).end,
                !.end = IF lo < Len(step) THEN At(step, lo).start ELSE At(step, -1).end]
       ELSE [start |-> At(step, lo).start,
             end |-> At(step, hi - 1).end,
             rules |-> old_map.rules \o StepRules(step, lo, hi),
             deleted |-> \A k \in lo..(hi - 1) : At(step, k).deleted,
             none |-> FALSE]

MergeCalled == pc = "chain" /\ last.merged.err # "none" /\ ~last.mappings.none
               /\ last.step # <<>>

\* C5: merge_mappings(acc, step) with acc not None and step non-empty gives a
\* deleted acc[i] the anchor step[lo].start (the tail anchor past the end) and
\* leaves it deleted with its rules, and gives any other acc[i] the span
\* (step[lo].start, step[hi-1].end), the rules of step[lo..hi-1] appended and
\* deleted exactly when all of step[lo..hi-1] are.
C5_MergeResult ==
    MergeCalled =>
        /\ last.merged.err = "ok"
        /\ Len(last.merged.list) = Len(last.mappings.list)
        /\ \A i \in 1..Len(last.mappings.list) :
               last.merged.list[i] = ClaimedMerge(last.mappings.list[i], last.step)

\* the pattern of the last call matches nowhere in its text
NoMatchCall ==
    /\ pc = "chain"
    /\ nsteps > 0
    /\ \A pos \in 0..Len(last.text) : ~MatchesAt(last.pattern.lit, last.text, pos)

IdentityResult ==
    /\ err = "ok"
    /\ text = last.text
    /\ IF last.mappings.none THEN M = IdentityMapping(Len(last.text))
       ELSE mappings = last.mappings

C7_OnlyContiguityError ==
    (pc = "chain" /\ nsteps > 0 /\ last.text # <<>>) => err \in {"ok", "ContiguityError"}

OnlySpaces(mp, t) ==
    \A k \in mp.start..(mp.end - 1) : InRange(t, k) /\ At(t, k) = space

RECURSIVE ExpectedOfOp(_, _, _)
ExpectedOfOp(op, k, i) ==
    IF i > Len(op.regs) THEN <<>>
    ELSE <<[op |-> k - 1, reg |-> i - 1,
            rule |-> IF i <= Len(op.tajweed_rules) THEN op.tajweed_rules[i]
                     ELSE "missing"]>>
         \o ExpectedOfOp(op, k, i + 1)

RECURSIVE ExpectedApplied(_)
ExpectedApplied(k) ==
    IF k > Len(OPERATION_ORDER) THEN <<>>
    ELSE ExpectedOfOp(OPERATION_ORDER[k], k, 1) \o ExpectedApplied(k + 1)

\* C9: the operations of OPERATION_ORDER are applied in list order, inside an
\* operation every pair of regs is applied exactly once, in list order, with
\* the rule at the same index of tajweed_rules, and after construction
\* tajweed_rules is as long as regs.
C9_AppliedInOrder ==
    /\ \A k \in 1..Len(OPERATION_ORDER) :
           Len(OPERATION_ORDER[k].tajweed_rules) = Len(OPERATION_ORDER[k].regs)
    /\ Len(applied) <= Len(ExpectedApplied(1))
    /\ applied = SubSeq(ExpectedApplied(1), 1, Len(applied))
    /\ pc \in {"sifat", "remove", "done"} => applied = ExpectedApplied(1)

\* C10: applying an operation leaves it as constructed: regs, ops_before,
\* tajweed_rules and every field of every rule in that list, the tag included.
C10_OperationUnchanged ==
    /\ OPERATION_ORDER = [k \in 1..Len(ctor_args) |-> ConversionOperation(ctor_args[k])]
    /\ \A k \in 1..Len(OPERATION_ORDER) :
           \A i \in 1..Len(OPERATION_ORDER[k].tajweed_rules) :
               LET r == OPERATION_ORDER[k].tajweed_rules[i]
               IN r # NoRule => tags[r] = FreshTags[r]

(***************************************************************************)
(* Properties of merge_mappings called on its own (MergeSpec).             *)
(***************************************************************************)
\* C11: merge_mappings with an empty step and an accumulator that is not None
\* raises ValueError, also for the empty accumulator, and leaves the
\* accumulator as it was; with accumulator None it returns the step mapping;
\* with an empty accumulator and a non-empty step it returns the empty list.
C11_MergeSpecialInputs ==
    pc = "merged" =>
        /\ (~last.mappings.none /\ last.step = <<>>)
               => (err = "ValueError" /\ mappings = last.mappings)
        /\ last.mappings.none
               => (err = "ok" /\ last.merged.list = last.step /\ mappings = NoMappings)
        /\ (~last.mappings.none /\ last.mappings.list = <<>> /\ last.step # <<>>)
               => (err = "ok" /\ last.merged.list = <<>>)

\* merge_mappings([], []) has raised ValueError
C11_Witness ==
    /\ pc = "merged"
    /\ ~last.mappings.none
    /\ last.mappings.list = <<>>
    /\ last.step = <<>>
    /\ err = "ValueError"

(***************************************************************************)
(* Properties of create_phonemes_index (IndexSpec).                        *)
(***************************************************************************)
\* the rows of the k-th aya of the corpus, in order
RowsOfAya(rows, k) ==
    SelectSeq(rows, LAMBDA r : r.sura_idx = sura_idx(k) /\ r.aya_idx = aya_idx(k))

\* C12 (as claimed): ph_start and ph_end are offsets into the phoneme stream
\* of the whole corpus: the first group of an aya starts where the last group
\* of the preceding aya ends, and only the first row of the corpus starts at 0.
C12_CorpusOffsets ==
    pc = "saved" =>
        \A r \in 1..Len(disk.index.content) :
            disk.index.content[r].ph_start = IF r = 1 THEN 0 ELSE disk.index.content[r - 1].ph_end

\* C12 (amended): ph_start and ph_end are offsets into the phoneme text of the
\* row's own aya: the first group of every aya starts at 0, every later group
\* of the aya starts where the group before it ends, and a group ends its own
\* length after its start.
C12_AyaOffsets ==
    pc = "saved" =>
        \A k \in 1..Len(corpus) :
            /\ Len(RowsOfAya(disk.index.content, k)) = Len(corpus[k].ph_groups)
            /\ \A g \in 1..Len(RowsOfAya(disk.index.content, k)) :
                   /\ RowsOfAya(disk.index.content, k)[g].ph_start =
                          IF g = 1 THEN 0 ELSE RowsOfAya(disk.index.content, k)[g - 1].ph_end
                   /\ RowsOfAya(disk.index.content, k)[g].ph_end =
                          RowsOfAya(disk.index.content, k)[g].ph_start + Len(corpus[k].ph_groups[g])

\* an index of three ayas has been saved
C12_Witness ==
    /\ pc = "saved"
    /\ Len(corpus) >= 3
    /\ Len(disk.index.content) >= 6
    /\ \E r \in 2..Len(disk.index.content) : disk.index.content[r].ph_start = 0

(***************************************************************************)
(* Properties of PhoneticSearch with one caller (SearchSpec).              *)
(***************************************************************************)
\* C13 (as claimed): the object is usable only if both files exist and the
\* reference file holds as many codepoints as the index has rows; a missing
\* file raises FileNotFoundError and any difference of the two counts, one of
\* surrounding whitespace or a trailing newline included, raises ValueError.
C13_RawCount ==
    pc # "new" =>
        /\ pc = "ready" =>
              /\ disk.index.exists /\ disk.ref.exists
              /\ Len(disk.ref.content) = Len(disk.index.content)
        /\ (~disk.index.exists \/ ~disk.ref.exists) =>
              (pc = "raised" /\ err = "FileNotFoundError")
        /\ (/\ disk.index.exists /\ disk.ref.exists
            /\ Len(disk.ref.content) # Len(disk.index.content)) =>
              (pc = "raised" /\ err = "ValueError")

\* C13 (amended): the count compared with the number of rows is that of the
\* reference file's content without its leading and trailing whitespace: a
\* missing file raises FileNotFoundError, a stripped count that differs from
\* the number of rows raises ValueError, and otherwise the object is built
\* from the rows and the stripped text.
C13_StrippedCount ==
    pc # "new" =>
        /\ pc = "ready" =>
              /\ disk.index.exists /\ disk.ref.exists
              /\ Len(strip(disk.ref.content)) = Len(disk.index.content)
              /\ searcher.built
              /\ searcher.index = disk.index.content
              /\ searcher.ref_ph_norm = strip(disk.ref.content)
        /\ (~disk.index.exists \/ ~disk.ref.exists) =>
              (pc = "raised" /\ err = "FileNotFoundError")
        /\ (/\ disk.index.exists /\ disk.ref.exists
            /\ Len(strip(disk.ref.content)) # Len(disk.index.content)) =>
              (pc = "raised" /\ err = "ValueError")

\* an object was built from a reference file with whitespace around its text
C13_Witness ==
    /\ pc = "ready"
    /\ searcher.built
    /\ Len(disk.ref.content) # Len(disk.index.content)

Returning(th) == th.pc \in {"returned", "done"}

\* the span the claim names for row ref_idx of the index
ClaimedSpan(index, ref_idx, end) ==
    [err |-> "ok",
     sura_idx |-> index[ref_idx + 1].sura_idx,
     aya_idx |-> index[ref_idx + 1].aya_idx,
     uthmani_word_idx |-> index[ref_idx + 1].uth_word,
     uthmani_char_idx |-> IF end = "end" THEN index[ref_idx + 1].uth_char_end
                          ELSE index[ref_idx + 1].uth_char_start,
     phonemes_idx |-> IF end = "end" THEN index[ref_idx + 1].ph_end
                      ELSE index[ref_idx + 1].ph_start]

\* C14: search returns one result per match (i, j) of the matcher, in the
\* matcher's order; its start span is read from the start columns of row i
\* and its end span from the end columns of row j-1.
C14_ResultPerMatch ==
    \A t \in DOMAIN threads :
        Returning(threads[t]) =>
            /\ Len(threads[t].results) = Len(threads[t].outs)
            /\ \A m \in 1..Len(threads[t].outs) :
                   /\ 0 <= threads[t].outs[m].start
                   /\ threads[t].outs[m].start < threads[t].outs[m].end
                   /\ threads[t].outs[m].end <= Len(disk.index.content)
                   /\ threads[t].results[m].start =
                          ClaimedSpan(disk.index.content, threads[t].outs[m].start, "start")
                   /\ threads[t].results[m].end =
                          ClaimedSpan(disk.index.content, threads[t].outs[m].end - 1, "end")

\* two matches were returned, one of them longer than one row
C14_Witness ==
    \E t \in DOMAIN threads :
        /\ threads[t].pc = "returned"
        /\ Len(threads[t].results) = 2
        /\ \E m \in 1..2 : threads[t].outs[m].end - threads[t].outs[m].start >= 2
        /\ threads[t].outs[1].start > threads[t].outs[2].start

\* the words the claim names, aya by aya from place k to the end aya at place k_end
RECURSIVE ClaimedWords(_, _, _, _, _)
ClaimedWords(c, k, k_end, first_word, end_word) ==
    IF k = k_end THEN SubSeq(c[k].uthmani_words, first_word + 1, Min2(end_word + 1, Len(c[k].uthmani_words)))
    ELSE SubSeq(c[k].uthmani_words, first_word + 1, Len(c[k].uthmani_words))
         \o ClaimedWords(c, k + 1, k_end, 0, end_word)

RECURSIVE ClaimedJoin(_)
ClaimedJoin(words) ==
    IF Len(words) = 0 THEN <<>>
    ELSE IF Len(words) = 1 THEN words[1]
    ELSE ClaimedJoin(SubSeq(words, 1, Len(words) - 1)) \o <<space>> \o words[Len(words)]

Place(span) == (span.sura_idx - 1) * AyasPerSura + span.aya_idx

\* C15: for every result of search, whose end aya is the start aya or a later
\* one, get_uthmani_from_result ends and returns, joined by the space, the
\* words from start_word on of the start aya, all words of the ayas crossed
\* and the words up to end_word of the end aya (start_word..end_word of the
\* one aya when both are the same).
C15_UthmaniOfResult ==
    \A t \in DOMAIN threads :
        /\ Returning(threads[t]) =>
              \A r \in 1..Len(threads[t].results) :
                  /\ Place(threads[t].results[r].start) <= Place(threads[t].results[r].end)
                  /\ get_uthmani_from_result(corpus, threads[t].results[r]).err = "ok"
        /\ threads[t].pc = "done" =>
              threads[t].uthmani =
                  ClaimedJoin(ClaimedWords(corpus,
                                           Place(threads[t].results[threads[t].r].start),
                                           Place(threads[t].results[threads[t].r].end),
                                           threads[t].results[threads[t].r].start.uthmani_word_idx,
                                           threads[t].results[threads[t].r].end.uthmani_word_idx))

\* the text of a result that starts past the first word of one aya, crosses
\* an aya and ends in a third one
C15_Witness ==
    \E t \in DOMAIN threads :
        /\ threads[t].pc = "done"
        /\ Place(threads[t].results[threads[t].r].end)
               >= Place(threads[t].results[threads[t].r].start) + 2
        /\ threads[t].results[threads[t].r].start.uthmani_word_idx > 0
        /\ Len(threads[t].uthmani) > 0

PastMatcher(th) ==
    /\ th.pc \in {"matched", "returned", "done", "raised"}
    /\ th.err \notin {"ValueError", "AssertionError"}

\* C16: search never returns an empty list; when no substring of ref_norm is
\* within max_edits of the normalised query it raises NoPhonemesSearchResult
\* and has no results.
C16_NeverEmpty ==
    \A t \in DOMAIN threads :
        /\ Returning(threads[t]) => Len(threads[t].results) >= 1
        /\ (/\ PastMatcher(threads[t])
            /\ \A i \in 0..Len(searcher.ref_ph_norm), j \in 0..Len(searcher.ref_ph_norm) :
                   i < j => Distance(normalize_phonetic_groups(threads[t].query),
                                     SubSeq(searcher.ref_ph_norm, i + 1, j))
                            > threads[t].max_edits)
           => /\ threads[t].pc = "raised"
              /\ threads[t].err = "NoPhonemesSearchResult"
              /\ threads[t].results = <<>>

\* a search for a text that is nowhere in the reference has raised
C16_Witness ==
    \E t \in DOMAIN threads :
        /\ threads[t].pc = "raised"
        /\ threads[t].err = "NoPhonemesSearchResult"
        /\ threads[t].norm_query # <<>>

\* C17: search raises ValueError, before it normalises the query or runs the
\* matcher, whenever the query is empty or error_ratio is outside [0, 1].
C17_ValueErrorFirst ==
    \A t \in DOMAIN threads :
        (/\ threads[t].pc # "called"
         /\ \/ threads[t].query = <<>>
            \/ threads[t].error_ratio < 0
            \/ threads[t].error_ratio > RatioDen)
        => /\ threads[t].pc = "raised"
           /\ threads[t].err = "ValueError"
           /\ threads[t].norm_query = <<>>
           /\ threads[t].outs = <<>>

(***************************************************************************)
(* Properties of PhoneticSearch with two callers of one object (ParSpec).  *)
(***************************************************************************)
\* what a call running alone on the object built from the files may return
AloneResults(th) ==
    { converted(matched(normalized(validated(Thread(th.query, th.error_ratio))), outs),
                Constructed(disk).self.index).results :
        outs \in find_near_matches(normalize_phonetic_groups(th.query),
                                   Constructed(disk).self.ref_ph_norm,
                                   (Len(th.query) * th.error_ratio) \div RatioDen) }

\* C18: once the object is built no step of a call writes its rows or its
\* reference text, and whatever the interleaving of two calls each of them
\* returns what it can return when it runs alone.
C18_SharedReadOnly ==
    /\ pc = "ready" => searcher = Constructed(disk).self
    /\ \A t \in DOMAIN threads :
           /\ Returning(threads[t]) =>
                 /\ threads[t].results # <<>>
                 /\ threads[t].results \in AloneResults(threads[t])
           /\ (threads[t].pc = "raised" /\ threads[t].err = "NoPhonemesSearchResult") =>
                 AloneResults(threads[t]) = {<<>>}
           /\ threads[t].pc = "done" =>
                 threads[t].uthmani =
                     get_uthmani_from_result(corpus, threads[t].results[threads[t].r]).text

\* one call has returned while the other, of a different query, is between
\* its matcher and its conversion
C18_Witness ==
    /\ Len(threads) = 2
    /\ threads[1].pc = "matched"
    /\ threads[2].pc = "returned"
    /\ threads[1].query # threads[2].query
    /\ threads[2].results # <<>>

(***************************************************************************)
(* Properties of explain_error (ExplainSpec).                              *)
(***************************************************************************)
\* C19: for every reference with a valid mapping and every prediction, one
\* with groups after the last reference group or without the last reference
\* groups included, explain_error returns, and every error it returns has
\* 0 <= uthmani_pos[0] <= uthmani_pos[1] <= len(uthmani_text) and
\* 0 <= ph_pos[0] <= ph_pos[1] <= len(ref_ph_text).
C19_ReturnsInBounds ==
    pc # "explain" =>
        /\ pc = "explained"
        /\ \A e \in 1..Len(explain_call.errors) :
               /\ 0 <= explain_call.errors[e].uthmani_pos[1]
               /\ explain_call.errors[e].uthmani_pos[1] <= explain_call.errors[e].uthmani_pos[2]
               /\ explain_call.errors[e].uthmani_pos[2] <= explain_call.uthmani_len
               /\ 0 <= explain_call.errors[e].ph_pos[1]
               /\ explain_call.errors[e].ph_pos[1] <= explain_call.errors[e].ph_pos[2]
               /\ explain_call.errors[e].ph_pos[2] <= Len(Flat(explain_call.ref_ph_groups))

\* C20: whenever the predicted text differs from the reference text,
\* explain_error returns at least one error, also when two aligned groups
\* start with the same codepoint, differ in a haraka, and the reference group
\* has no tajweed rule.
C20_DifferenceReported ==
    (/\ pc = "explained"
     /\ Flat(explain_call.pred_ph_groups) # Flat(explain_call.ref_ph_groups))
    => Len(explain_call.errors) >= 1


\* a mapping whose spans meet end to start, from 0 to n, deleted exactly when empty
ValidMapping(l, n) ==
    /\ l # <<>>
    /\ l[1].start = 0
    /\ l[Len(l)].end = n
    /\ \A i \in 1..(Len(l) - 1) : l[i].end = l[i + 1].start
    /\ SpanInv(l)

\* merge_mappings was called with a valid accumulator over the step's source
\* and a valid step
ValidMerge ==
    /\ pc = "merged"
    /\ ~last.mappings.none
    /\ last.step # <<>>
    /\ ValidMapping(last.mappings.list, Len(last.step))
    /\ ValidMapping(last.step, last.step[Len(last.step)].end)

(* C26: merge_mappings of a valid accumulator of length N that ends at the *)
(* step's length and a valid step that ends at L returns a mapping of      *)
(* length N that starts at 0, ends at L, has every consecutive pair of     *)
(* spans meeting and is deleted exactly where start = end.                 *)
C26_MergePreservesInvariants ==
    ValidMerge =>
        /\ err = "ok"
        /\ Len(last.merged.list) = Len(last.mappings.list)
        /\ ValidMapping(last.merged.list, last.step[Len(last.step)].end)

\* a valid merge whose accumulator holds a deleted entry before a live one
\* and whose step deletes a character
C26_Witness ==
    /\ ValidMerge
    /\ err = "ok"
    /\ Len(last.mappings.list) = 2
    /\ last.mappings.list[1].deleted
    /\ \E i \in 1..Len(last.step) : last.step[i].deleted

\* the rows of the k-th aya once the index is complete, and its word boundaries
AyaRows(k) == RowsOfAya(ph_grp_to_index, k)

Boundaries(k) ==
    get_uth_word_boundaries_in_ph(clean_uthmani_spaces(corpus[k].uthmani),
                                  corpus[k].mappings, 0).list

\* the boundary not yet consumed when row g of aya k is emitted
Pending(k, g) == Boundaries(k)[AyaRows(k)[g].uth_word + 1]

\* the group of row g reaches the pending boundary, or straddles it with the
\* next group ending past it
ReachesOrStraddles(k, g) ==
    /\ AyaRows(k)[g].uth_word < Len(Boundaries(k))
    /\ \/ AyaRows(k)[g].ph_end >= Pending(k, g)
       \/ /\ AyaRows(k)[g].ph_start < Pending(k, g)
          /\ Pending(k, g) < AyaRows(k)[g].ph_end
          /\ AyaRows(k)[g + 1].ph_end > Pending(k, g)

\* the group of row g reaches the pending boundary, or ends before it with the
\* next group ending past it
ReachesOrNextStraddles(k, g) ==
    /\ AyaRows(k)[g].uth_word < Len(Boundaries(k))
    /\ \/ AyaRows(k)[g].ph_end >= Pending(k, g)
       \/ /\ AyaRows(k)[g].ph_end < Pending(k, g)
          /\ AyaRows(k)[g + 1].ph_end > Pending(k, g)

(* C28: within an aya the word index starts at 0; after a row it advances   *)
(* by one iff a boundary b remains and the group's end has reached b or the *)
(* group straddles b and the next group ends past b; otherwise it stays; it *)
(* never exceeds the number of boundaries.                                  *)
C28_AdvanceWhenStraddling ==
    pc = "saved" =>
        \A k \in 1..Len(corpus) :
            \A g \in 1..Len(AyaRows(k)) :
                /\ g = 1 => AyaRows(k)[g].uth_word = 0
                /\ AyaRows(k)[g].uth_word <= Len(Boundaries(k))
                /\ g < Len(AyaRows(k)) =>
                      AyaRows(k)[g + 1].uth_word =
                          AyaRows(k)[g].uth_word + (IF ReachesOrStraddles(k, g) THEN 1 ELSE 0)

(* C28, amended: the second case is that the group ends before b and the    *)
(* next group ends past b, so that the next group, which straddles b, is    *)
(* given the index of the later word.                                       *)
C28_AdvanceWhenNextStraddles ==
    pc = "saved" =>
        \A k \in 1..Len(corpus) :
            \A g \in 1..Len(AyaRows(k)) :
                /\ g = 1 => AyaRows(k)[g].uth_word = 0
                /\ AyaRows(k)[g].uth_word <= Len(Boundaries(k))
                /\ g < Len(AyaRows(k)) =>
                      AyaRows(k)[g + 1].uth_word =
                          AyaRows(k)[g].uth_word + (IF ReachesOrNextStraddles(k, g) THEN 1 ELSE 0)

\* an index with an aya whose word index advanced before a straddling group and
\* an aya whose word index advanced at a boundary that was reached
C28_Witness ==
    /\ pc = "saved"
    /\ \E k \in 1..Len(corpus) :
          /\ Len(AyaRows(k)) = 2
          /\ Len(Boundaries(k)) = 1
          /\ AyaRows(k)[1].ph_end < Pending(k, 1)
          /\ AyaRows(k)[2].uth_word = 1
    /\ \E k \in 1..Len(corpus) :
          /\ Len(AyaRows(k)) = 2
          /\ Len(Boundaries(k)) = 1
          /\ AyaRows(k)[1].ph_end >= Pending(k, 1)
          /\ AyaRows(k)[2].uth_word = 1

\* the number of Uthmani spaces before position pos of the cleaned text of aya k
SpacesBefore(k, pos) ==
    Cardinality({i \in 1..pos : clean_uthmani_spaces(corpus[k].uthmani)[i] = space})

(* C29: the word index stored in a row is the index of the Uthmani word     *)
(* that holds the row's uth_char_start: the number of spaces before that    *)
(* position in the cleaned aya text.                                        *)
C29_WordOfCharStart ==
    pc = "saved" =>
        \A k \in 1..Len(corpus) :
            \A g \in 1..Len(AyaRows(k)) :
                AyaRows(k)[g].uth_word = SpacesBefore(k, AyaRows(k)[g].uth_char_start)

(***************************************************************************)
(* Properties of one get_mappings call followed pass by pass (GmSpec).     *)
(***************************************************************************)
GmOps == opcodes(gm.text, gm.new_text)

\* the walk over the opcodes has ended without an exception
Walked == pc = "gm_leen"

\* opcode k is an Equal, opcode k+1 an Insert whose first codepoint repeats
\* the last codepoint of the Equal run
EqInsSame(ops, k) ==
    /\ ops[k].tag = "equal"
    /\ ops[k + 1].tag = "insert"
    /\ gm.new_text[ops[k + 1].j1 + 1] = gm.text[ops[k].i2]

HasRule(mp) == \E r \in 1..Len(mp.rules) : mp.rules[r] = gm.rule

\* the insert at opcode 2 is the only change of the step
OnlyInsert(ops) ==
    /\ Len(ops) \in {2, 3}
    /\ EqInsSame(ops, 1)
    /\ Len(ops) = 3 => ops[3].tag = "equal"

ThenReplaceSame(ops, k) ==
    /\ k + 2 <= Len(ops)
    /\ ops[k + 2].tag = "replace"
    /\ gm.new_text[ops[k + 1].j2] = gm.new_text[ops[k + 2].j1 + 1]

\* the Insert at opcode k+1 is followed by a Replace of a source space
ThenReplaceSpace(ops, k) ==
    /\ k + 2 <= Len(ops)
    /\ ops[k + 2].tag = "replace"
    /\ gm.text[ops[k + 2].i1 + 1] = space

Contiguous(l) ==
    \A i, j \in 1..Len(l) :
        (/\ i < j
         /\ ~l[i].deleted
         /\ ~l[j].deleted
         /\ \A k \in (i + 1)..(j - 1) : l[k].deleted)
        => l[i].end = l[j].start

\* every codepoint of a text of n codepoints lies in exactly one non-deleted span
Covers(l, n) ==
    \A c \in 0..(n - 1) :
        Cardinality({i \in 1..Len(l) : ~l[i].deleted /\ l[i].start <= c /\ c < l[i].end}) = 1

\* the matches of the shadda pattern in text as <<first, second>>, counted from 1
ShaddaPairs ==
    [k \in 1..Len(ShaddaMatches(gm.text, 0)) |->
        <<ShaddaMatches(gm.text, 0)[k][1] + 1, ShaddaMatches(gm.text, 0)[k][2] - 1>>]

\* m[first] is non-deleted and m[second] is deleted
SwapDue(m, pr) == ~m[pr[1]].deleted /\ m[pr[2]].deleted

(* C22: the shadda pass gives m[second] the span and rules of m[first] and *)
(* deletes every index in [first, second) at the start of that span when   *)
(* m[first] is non-deleted and m[second] deleted, leaves the mapping       *)
(* unchanged otherwise, and preserves contiguity and coverage.             *)
C22_ShaddaSwap ==
    [][pc = "gm_shadda" =>
        /\ \A k \in 1..Len(ShaddaPairs) :
              IF SwapDue(gm.st.m, ShaddaPairs[k])
              THEN /\ gm'.st.m[ShaddaPairs[k][2]] = gm.st.m[ShaddaPairs[k][1]]
                   /\ \A i \in ShaddaPairs[k][1]..(ShaddaPairs[k][2] - 1) :
                         gm'.st.m[i] = DeletedPos(gm.st.m[ShaddaPairs[k][1]].start)
              ELSE \A i \in ShaddaPairs[k][1]..ShaddaPairs[k][2] : gm'.st.m[i] = gm.st.m[i]
        /\ (\A k \in 1..Len(ShaddaPairs) : ~SwapDue(gm.st.m, ShaddaPairs[k]))
              => gm'.st.m = gm.st.m
        /\ Contiguous(gm.st.m) => Contiguous(gm'.st.m)
        /\ Covers(gm.st.m, Len(gm.new_text)) => Covers(gm'.st.m, Len(gm.new_text))]_vars

\* C22 without the clause on contiguity and coverage
C22_ShaddaSwapOnly ==
    [][pc = "gm_shadda" =>
        /\ \A k \in 1..Len(ShaddaPairs) :
              IF SwapDue(gm.st.m, ShaddaPairs[k])
              THEN /\ gm'.st.m[ShaddaPairs[k][2]] = gm.st.m[ShaddaPairs[k][1]]
                   /\ \A i \in ShaddaPairs[k][1]..(ShaddaPairs[k][2] - 1) :
                         gm'.st.m[i] = DeletedPos(gm.st.m[ShaddaPairs[k][1]].start)
              ELSE \A i \in ShaddaPairs[k][1]..ShaddaPairs[k][2] : gm'.st.m[i] = gm.st.m[i]
        /\ (\A k \in 1..Len(ShaddaPairs) : ~SwapDue(gm.st.m, ShaddaPairs[k]))
              => gm'.st.m = gm.st.m]_vars

\* the merged mapping the qalqalah pass starts from, and the one it leaves
Merged == gm.st.m
Marked == gm'.st.m

\* the output indices of the qalqalah markers that follow neither skoon nor shadda
Markers == QlqMatches(gm.new_text, 0)

\* the source indices (from 1) whose span starts at output index q
StartsAt(q) == {i \in 1..Len(Merged) : Merged[i].start = q}

FirstAt(q) == CHOOSE i \in StartsAt(q) : \A j \in StartsAt(q) : i <= j

(* C23: for a qalqalah marker at output index q after a codepoint that is  *)
(* neither skoon nor shadda, with k the source index whose span starts at  *)
(* q: if m[k-1] has no rules, the pass gives m[k-1] the end and the rules  *)
(* of m[k] and leaves m[k] deleted at its end without rules, so that the   *)
(* span of m[k-1] covers the marker; if m[k-1] has rules or no span starts *)
(* at q the mapping is unchanged.  Stated for a new_text with one marker.  *)
C23_QalqalahMoved ==
    [][(pc = "gm_qalqalah" /\ Len(Markers) = 1) =>
        IF StartsAt(Markers[1]) = {} THEN Marked = Merged
        ELSE IF FirstAt(Markers[1]) = 1 THEN TRUE
        ELSE IF Merged[FirstAt(Markers[1]) - 1].rules # <<>> THEN Marked = Merged
        ELSE /\ pc' = "gm_check"
             /\ Marked[FirstAt(Markers[1]) - 1].end = Merged[FirstAt(Markers[1])].end
             /\ Marked[FirstAt(Markers[1]) - 1].rules = Merged[FirstAt(Markers[1])].rules
             /\ Marked[FirstAt(Markers[1])] = DeletedPos(Merged[FirstAt(Markers[1])].end)
             /\ Marked[FirstAt(Markers[1]) - 1].start <= Markers[1]
             /\ Markers[1] < Marked[FirstAt(Markers[1]) - 1].end
             /\ ~Marked[FirstAt(Markers[1]) - 1].deleted]_vars

\* the source indices (from 1) at which text holds the tanween-idgham determiner
Determiners == {i \in 1..Len(gm.text) : gm.text[i] = tanween_idhaam_dterminer}

\* the codepoint of new_text at m[i].start is not the determiner
NotKept(i) ==
    /\ gm.st.m[i].start < Len(gm.new_text)
    /\ gm.new_text[gm.st.m[i].start + 1] # tanween_idhaam_dterminer

(* C24: the tanween pass, for every source index i holding the determiner  *)
(* (the last index included) whose target codepoint at m[i].start is not   *)
(* the determiner, gives m[i-1] the end of m[i] and leaves m[i] deleted at *)
(* that end; every other determiner index keeps its entry.                 *)
C24_TanweenMoved ==
    [][pc = "gm_tanween" =>
        \A i \in Determiners :
            IF NotKept(i)
            THEN /\ pc' = "gm_shadda"
                 /\ i > 1 => gm'.st.m[i - 1].end = gm.st.m[i].end
                 /\ gm'.st.m[i].deleted
                 /\ gm'.st.m[i].start = gm.st.m[i].end
                 /\ gm'.st.m[i].end = gm.st.m[i].end
            ELSE gm.st.m[i].start < Len(gm.new_text) => gm'.st.m[i] = gm.st.m[i]]_vars

\* the non-deleted spans of the returned mapping that carry the Leen Madd rule
LeenSpans ==
    {i \in 1..Len(gm.st.m) :
        /\ ~gm.st.m[i].deleted
        /\ \E r \in 1..Len(gm.st.m[i].rules) : name_en(gm.st.m[i].rules[r]) = "Leen Madd"}

(* C25: after get_mappings returns, the Leen Madd rule of every span that  *)
(* carries it (its tag was None before the call) has the tag of the madd   *)
(* letter at new_text[span.start], also when the step attached the rule to *)
(* several spans.                                                          *)
C25_LeenTagOfSpan ==
    pc = "returned" =>
        \A i \in LeenSpans :
            gm.st.tags["LeenMadd"] = _madd_to_tag[gm.new_text[gm.st.m[i].start + 1]]

\* the opcode that holds source index i (from 1)
OpOf(ops, i) == CHOOSE k \in 1..Len(ops) : ops[k].i1 < i /\ i <= ops[k].i2

\* source index i is the last of the opcode before an Insert or the first of the one after it
BesideInsert(ops, i) ==
    \E k \in 1..Len(ops) :
        /\ ops[k].tag = "insert"
        /\ \/ k > 1 /\ ops[k - 1].i2 = i
           \/ k < Len(ops) /\ ops[k + 1].i1 + 1 = i

\* the step returned a mapping for a new_text without qalqalah marker
ReturnedPlain ==
    /\ pc = "returned"
    /\ gm.text # <<>>
    /\ \A j \in 1..Len(gm.new_text) : gm.new_text[j] # qlqla

\* the rule is only on characters of a Replace or a Delete or beside an Insert;
\* an Equal character away from every Insert has its own codepoint and no rule
RuleOnlyWhereChanged ==
    \A i \in 1..Len(gm.text) :
        /\ HasRule(gm.st.m[i]) =>
              \/ GmOps[OpOf(GmOps, i)].tag \in {"replace", "delete"}
              \/ BesideInsert(GmOps, i)
        /\ (GmOps[OpOf(GmOps, i)].tag = "equal" /\ ~BesideInsert(GmOps, i)) =>
              gm.st.m[i] = MappingPos(GmOps[OpOf(GmOps, i)].j1 + i - 1 - GmOps[OpOf(GmOps, i)].i1,
                                      GmOps[OpOf(GmOps, i)].j1 + i - GmOps[OpOf(GmOps, i)].i1)

(* C27: in a step with no prior mapping whose new_text has no qalqalah     *)
(* marker the rule is attached only to source characters of a Replace or a *)
(* Delete or to the character an Insert is bound to, and every character   *)
(* of an Equal that is not beside an Insert gets (j_dst, j_dst + 1) and no *)
(* rule.                                                                   *)
C27_RuleOnlyWhereChanged == ReturnedPlain => RuleOnlyWhereChanged

\* text holds no space, no tanween-idgham determiner and no shadda
NoSpecials ==
    \A i \in 1..Len(gm.text) : gm.text[i] \notin {space, tanween_idhaam_dterminer, shadda}

(* C27, amended: the same for a text that holds no space, no determiner    *)
(* and no shadda.                                                          *)
C27_RuleOnlyWhereChangedPlainText == (ReturnedPlain /\ NoSpecials) => RuleOnlyWhereChanged

\* a returned step with a Replace under the rule and an Equal character without it
C27_Witness ==
    /\ ReturnedPlain
    /\ NoSpecials
    /\ \E i, j \in 1..Len(gm.text) :
          /\ GmOps[OpOf(GmOps, i)].tag = "replace"
          /\ HasRule(gm.st.m[i])
          /\ GmOps[OpOf(GmOps, j)].tag = "equal"
          /\ ~BesideInsert(GmOps, j)
          /\ gm.st.m[j].rules = <<>>

(***************************************************************************)
(* Properties of ConversionOperation.apply (ApplySpec).                    *)
(***************************************************************************)
\* the rewrites op.apply is to make: in test mode those of every operation of
\* ops_before whose name is not discarded, each by the same rule and with the
\* same discarded names, then the first n(op) pairs of its own regs
RECURSIVE OwnRegs(_, _, _)
OwnRegs(op, i, n) ==
    IF i >= n THEN <<>>
    ELSE <<[op |-> op.arabic_name, reg |-> i]>> \o OwnRegs(op, i + 1, n)

RECURSIVE ApplyLog(_, _, _, _, _)
ApplyLog(op, i, mode, names, all_regs) ==
    IF mode = "test" /\ i <= Len(op.ops_before)
    THEN (IF op.ops_before[i].arabic_name \in names THEN <<>>
          ELSE ApplyLog(op.ops_before[i], 1, mode, names, all_regs))
         \o ApplyLog(op, i + 1, mode, names, all_regs)
    ELSE OwnRegs(op, 0, IF all_regs THEN Len(op.regs) ELSE ForwardLen(op))

ApplyCalled == Len(apply_call.stack) > 0

ApplyOrder(log) ==
    IF apply_call.mode \in {"inference", "test"}
    THEN /\ Len(applied) <= Len(log)
         /\ applied = SubSeq(log, 1, Len(applied))
         /\ pc = "returned" => applied = log
    ELSE /\ applied = <<>>
         /\ text = orig
         /\ mappings = NoMappings
         /\ pc \in {"apply", "raised"}
         /\ pc = "raised" => err = "ValueError"

\* C30: in test mode apply first applies, in list order and recursively, every
\* operation of ops_before whose arabic_name is not discarded, with the same
\* discard set at every depth, and only then its own regs; in inference mode
\* it applies only its own regs; with any other mode it raises ValueError and
\* applies no rewrite.
C30_ApplyOrder ==
    ApplyCalled =>
        ApplyOrder(ApplyLog(apply_call.stack[1].op, 1, apply_call.mode,
                            discard_ops_names, TRUE))

\* what does hold: the same order with, for every operation, the pairs of regs
\* that forward's zip reaches
ApplyOrderOfForward ==
    ApplyCalled =>
        ApplyOrder(ApplyLog(apply_call.stack[1].op, 1, apply_call.mode,
                            discard_ops_names, FALSE))

\* a test-mode call that went two levels deep and skipped a discarded operation
ApplyNested ==
    /\ pc = "returned"
    /\ ApplyCalled
    /\ apply_call.mode = "test"
    /\ apply_call.stack[1].op = CleanEndOp
    /\ discard_ops_names = {"Madd"}
    /\ Len(applied) > 0

=============================================================================
